---------------------------- MODULE Spec2Model ----------------------------
(***************************************************************************)
(* Registration proof-of-work solver of bittensor/utils/__init__.py:       *)
(* the hash primitive, the difficulty predicate, the shared block state,   *)
(* the CPU worker (Solver.run) and the coordinator                         *)
(* (solve_for_difficulty_fast).                                            *)
(*                                                                         *)
(* Python integers are unbounded and the solver works with values up to    *)
(* 2^320, so an integer is modelled as the little-endian sequence of its   *)
(* base-256 digits without leading zero digits (<<>> is 0).  The values    *)
(* read back from the ctypes cell 'i' are signed 32-bit and are kept as    *)
(* ordinary integers.                                                      *)
(***************************************************************************)
EXTENDS Integers, Sequences, FiniteSets, TLC

(***************************************************************************)
(* Unbounded naturals.  The operators are written with local recursive     *)
(* functions over digit positions.                                         *)
(***************************************************************************)
Max(S) == CHOOSE m \in S : \A k \in S : k <= m

\* The element of a one-element set.  The({e(x) : x \in {v}}) is e(v) with v
\* evaluated once, as a python expression evaluates its operands once.
The(S) == CHOOSE x \in S : TRUE

Normalise(a) ==
  The({ LET nz == {i \in 1..Len(s) : s[i] # 0}
        IN  IF nz = {} THEN <<>> ELSE SubSeq(s, 1, Max(nz)) : s \in {a} })

\* n < 2^31
BigFromNat(n) ==
  Normalise(<< n % 256, (n \div 256) % 256, (n \div 65536) % 256, n \div 16777216 >>)

Zeros(k) == [i \in 1..k |-> 0]

Digit(a, i) == IF i >= 1 /\ i <= Len(a) THEN a[i] ELSE 0

\* 2^k
BigPow2(k) == Zeros(k \div 8) \o <<2 ^ (k % 8)>>

\* The digits of the sum of terms[i] * 256^(i-1), the carries propagated:
\* carry[i] is the carry out of position i.
Carry(terms) ==
  The({ LET n == Len(t)
            carry[i \in 0..n] ==
              IF i = 0 THEN 0 ELSE (t[i] + carry[i - 1]) \div 256
        IN  Normalise([i \in 1..n |-> (t[i] + carry[i - 1]) % 256])
        : t \in {terms} })

BigAdd(a, b) ==
  The({ Carry([i \in 1..(Max({Len(x), Len(y)}) + 1) |-> Digit(x, i) + Digit(y, i)])
        : x \in {a}, y \in {b} })

\* a - b for a >= b
BigSub(a, b) ==
  The({ Carry([i \in 1..Len(x) |-> Digit(x, i) - Digit(y, i)])
        : x \in {a}, y \in {b} })

BigMul(a, b) ==
  The({ LET column(k) ==
              LET part[i \in 0..Len(y)] ==
                    IF i = 0 THEN 0 ELSE Digit(x, k - i + 1) * y[i] + part[i - 1]
              IN  part[Len(y)]
        IN  Carry([k \in 1..(Len(x) + Len(y)) |-> column(k)])
        : x \in {a}, y \in {b} })

\* a < b, both normalised
BigLess(a, b) ==
  IF Len(a) # Len(b) THEN Len(a) < Len(b)
  ELSE LET differ == {i \in 1..Len(a) : a[i] # b[i]}
       IN  differ # {} /\ a[Max(differ)] < b[Max(differ)]

BigLeq(a, b) == a = b \/ BigLess(a, b)

\* a >> 32, a & 0xFFFFFFFF, a << 32
BigShr32(a) == IF Len(a) <= 4 THEN <<>> ELSE SubSeq(a, 5, Len(a))
BigAndLow32(a) == Normalise(SubSeq(a, 1, IF Len(a) < 4 THEN Len(a) ELSE 4))
BigShl32(a) == IF a = <<>> THEN <<>> ELSE Zeros(4) \o a

OrByte(x, y) ==
  LET bit[k \in 0..8] ==
        IF k = 8 THEN 0
        ELSE (IF (x \div (2 ^ k)) % 2 = 1 \/ (y \div (2 ^ k)) % 2 = 1 THEN 2 ^ k ELSE 0)
             + bit[k + 1]
  IN  bit[0]

\* a | b
BigOr(a, b) ==
  The({ Normalise([i \in 1..Max({Len(x), Len(y)}) |->
                     The({ OrByte(p, q) : p \in {Digit(x, i)}, q \in {Digit(y, i)} })])
        : x \in {a}, y \in {b} })

\* the value of a number below 2^31 as an integer
NatFromBig(a) ==
  Digit(a, 1) + 256 * Digit(a, 2) + 65536 * Digit(a, 3) + 16777216 * Digit(a, 4)

Reverse(s) == [i \in 1..Len(s) |-> s[Len(s) + 1 - i]]

\* int.to_bytes(n, 'little') raises OverflowError when the value needs more bytes
to_bytes_overflows(a, n) == Len(a) > n

to_bytes_little(a, n) == a \o Zeros(n - Len(a))

\* int.from_bytes(b, 'big')
from_bytes_big(b) == Normalise(Reverse(b))

(***************************************************************************)
(* ASCII hex: binascii.hexlify and int(pair, 16).                          *)
(***************************************************************************)
HexChar(v) == IF v < 10 THEN 48 + v ELSE 87 + v

HexVal(c) ==
  IF c >= 48 /\ c <= 57 THEN c - 48
  ELSE IF c >= 97 /\ c <= 102 THEN c - 87
  ELSE c - 55

hexlify(bs) ==
  [i \in 1..(2 * Len(bs)) |->
     IF i % 2 = 1 THEN HexChar(bs[(i + 1) \div 2] \div 16)
     ELSE HexChar(bs[i \div 2] % 16)]

hex_bytes_to_u8_list(hex_bytes) ==
  [i \in 1..(Len(hex_bytes) \div 2) |->
     16 * HexVal(hex_bytes[2 * i - 1]) + HexVal(hex_bytes[2 * i])]


(***************************************************************************)
(* ctypes cells.  Assignment to a ctypes cell does no overflow checking:   *)
(* the value is reduced to the cell's width.                               *)
(***************************************************************************)
\* multiprocessing.Value('i'): signed 32-bit, read back as a Python int
c_int(a) ==
  LET b == a \o Zeros(4)
      v31 == b[1] + 256 * b[2] + 65536 * b[3] + 16777216 * (b[4] % 128)
  IN  IF b[4] >= 128 THEN (v31 - 2147483647) - 1 ELSE v31

\* multiprocessing.Array('Q'): unsigned 64-bit
c_ulonglong(a) == Normalise(SubSeq(a, 1, IF Len(a) < 8 THEN Len(a) ELSE 8))

\* multiprocessing.Array('h'): signed 16-bit; a byte value is kept as it is
c_short(v) == IF v % 65536 >= 32768 THEN (v % 65536) - 65536 ELSE v % 65536

(***************************************************************************)
(* Hash primitive.  SHA-256 and Keccak-256 cannot be computed here; they   *)
(* are replaced by fixed functions of their whole input: sha256 by the     *)
(* position-weighted byte sum (as 32 little-endian bytes), keccak256 by a  *)
(* table of 32-byte seals indexed by that digest.  What is kept exactly is *)
(* the construction of the hashed message.                                 *)
(***************************************************************************)
\* the sum is taken in runs of Chunk bytes
Chunk == 8

WeightedSum(buf) ==
  LET n == Len(buf)
      runs == (n + Chunk - 1) \div Chunk
      range(lo, hi) ==
        LET part[j \in (lo - 1)..hi] ==
              IF j = lo - 1 THEN 0 ELSE j * buf[j] + part[j - 1]
        IN  part[hi]
      block[k \in 0..runs] ==
        IF k = 0 THEN 0
        ELSE range(Chunk * (k - 1) + 1, IF Chunk * k < n THEN Chunk * k ELSE n)
             + block[k - 1]
  IN  block[runs]

sha256(buf) ==
  LET d == BigFromNat(WeightedSum(buf)) IN d \o Zeros(32 - Len(d))

Rep(v) == [i \in 1..32 |-> v]

\* 32-byte seals, big-endian
SealZero == Rep(0)
SealOnes == Rep(255)                             \* 2^256 - 1
SealThird == Rep(85)                             \* (2^256 - 1) / 3
SealThirdUp == [i \in 1..32 |-> IF i = 32 THEN 86 ELSE 85]
SealHalf == [i \in 1..32 |-> IF i = 1 THEN 128 ELSE 0]     \* 2^255
SealLow == [i \in 1..32 |-> IF i <= 8 THEN 0 ELSE 255]     \* 2^192 - 1
SealLowUp == [i \in 1..32 |-> IF i = 8 THEN 1 ELSE 0]      \* 2^192
SealOne == [i \in 1..32 |-> IF i = 32 THEN 1 ELSE 0]

SealTable ==
  << SealZero, SealOnes, SealThirdUp, SealHalf, SealThird, SealLow,
     SealOnes, SealLow, SealLowUp, SealOne, SealHalf >>

keccak256(d) ==
  SealTable[((d[1] + 256 * d[2] + 65536 * d[3]) % Len(SealTable)) + 1]

\* the seal of (nonce, block_bytes): lines 260-264, the same as lines 85-89
seal_of(nonce_bytes, block_bytes) ==
  LET pre_seal == hexlify(nonce_bytes) \o block_bytes
      seal_sh256 == sha256(hex_bytes_to_u8_list(pre_seal))
  IN  keccak256(seal_sh256)

\* seal_number * difficulty: lines 265-268, the same as lines 93-94
seal_product(seal, difficulty) == BigMul(from_bytes_big(seal), difficulty)

\* str.encode('utf-8')[2:]
strip_0x(block_hash) == SubSeq(block_hash, 3, Len(block_hash))

create_seal_hash(block_hash, nonce) ==
  LET block_bytes == strip_0x(block_hash)
  IN  IF to_bytes_overflows(nonce, 8) THEN <<>>       \* OverflowError: no seal
      ELSE seal_of(to_bytes_little(nonce, 8), block_bytes)

(***************************************************************************)
(* Difficulty predicate.                                                   *)
(***************************************************************************)
\* int(math.pow(2,256)) - 1: the float 2.0**256 is exact
limit == BigSub(BigPow2(256), <<1>>)

\* the predicate with the comparison of line 269 (product < limit) in place of
\* the one of line 96
seal_meets_strictly(seal, difficulty) ==
  BigLess(seal_product(seal, difficulty), limit)

seal_meets_difficulty(seal, difficulty) ==
  LET product == seal_product(seal, difficulty)
  IN  IF BigLess(limit, product) THEN FALSE ELSE TRUE

(***************************************************************************)
(* Shared block state: packing of the difficulty.                          *)
(***************************************************************************)
\* an unpacking that takes the two words in the other order
registration_diff_unpack_low_first(packed_diff) ==
  BigOr(BigShl32(packed_diff[2]), packed_diff[1])

registration_diff_unpack(packed_diff) ==
  BigOr(BigShl32(packed_diff[1]), packed_diff[2])

registration_diff_pack(diff) ==
  << c_ulonglong(BigShr32(diff)), c_ulonglong(BigAndLow32(diff)) >>

(***************************************************************************)
(* solve_for_nonce_block: one sweep of range(nonce_start, nonce_end).      *)
(* An optional value is a sequence of length 0 (None) or 1.                *)
(***************************************************************************)
None == <<>>
Some(x) == <<x>>

POWSolution(nonce, block_number, difficulty, seal) ==
  [nonce |-> nonce, block_number |-> block_number,
   difficulty |-> difficulty, seal |-> seal]

\* best_local = float('inf'); best_seal_local = [0]*32
BestInit == [inf |-> TRUE, margin |-> <<>>, seal |-> Zeros(32)]

\* the worker's inline test of a product against the limit (line 269)
inline_meets(product, lim) == BigLess(product, lim)

\* (product - limit) < best_local
improves(product, lim, best) ==
  best.inf \/ BigLess(BigSub(product, lim), best.margin)

\* the state of the for loop of lines 258-275 after the nonce was tried
try_nonce(before, nonce, block_bytes, difficulty, lim, block_number) ==
  IF before.kind # "loop" THEN before
  ELSE IF to_bytes_overflows(nonce, 8)
  THEN [kind |-> "raise", solution |-> None, best |-> before.best]
  ELSE
    LET seal == seal_of(to_bytes_little(nonce, 8), block_bytes)
        product == seal_product(seal, difficulty)
    IN  IF inline_meets(product, lim)
        THEN [kind |-> "solution",
              solution |-> Some(POWSolution(nonce, block_number, difficulty, seal)),
              best |-> before.best]
        ELSE [kind |-> "loop", solution |-> None,
              best |-> IF improves(product, lim, before.best)
                       THEN [inf |-> FALSE, margin |-> BigSub(product, lim),
                             seal |-> seal]
                       ELSE before.best]

\* kind "solution": line 271; "none": lines 278-279; "raise": an exception
solve_for_nonce_block(nonce_start, nonce_end, block_bytes, difficulty, lim, block_number) ==
  LET count == IF BigLess(nonce_start, nonce_end)
               THEN NatFromBig(BigSub(nonce_end, nonce_start)) ELSE 0
      after[i \in 0..count] ==
        IF i = 0 THEN [kind |-> "loop", solution |-> None, best |-> BestInit]
        ELSE try_nonce(after[i - 1], BigAdd(nonce_start, BigFromNat(i - 1)),
                       block_bytes, difficulty, lim, block_number)
      last == after[count]
  IN  IF last.kind = "loop" THEN [last EXCEPT !.kind = "none"] ELSE last

(***************************************************************************)
(* Parameters of a run and the chain client.                               *)
(***************************************************************************)
\* solvers = [ Solver(i, num_processes, ...) for i in range(num_processes) ]
Procs == {0, 1}
num_processes == Cardinality(Procs)

\* nonces per sweep (50_000 by default)
update_interval == 2

\* sweeps a worker may start, new blocks the chain may produce, null hashes
\* the chain client may return
MaxTicks == 1
MaxBlocks == 1
MaxNullHash == 3

\* batches the GPU path may run
MaxBatches == 2

nonce_limit == BigSub(BigPow2(64), <<1>>)

\* values random.randint(0, nonce_limit) is let to return
RandomNonces == { <<>>, nonce_limit }

\* block numbers the chain may stand at when the solver starts: an ordinary
\* one, and the last one a signed 32-bit cell holds
StartBlocks == { BigFromNat(100) }
HighBlocks == { BigSub(BigPow2(31), <<1>>) }

\* values of subtensor.difficulty
Difficulties == { <<3>>, BigPow2(64) }

\* subtensor.substrate.get_block_hash(n): "0x" and 64 hex digits, here the
\* low byte of n repeated
get_block_hash(n) ==
  <<48, 120>> \o hexlify(Rep(IF n = <<>> THEN 0 ELSE n[1]))

(***************************************************************************)
(* State.                                                                  *)
(***************************************************************************)
VARIABLES
  chain,            \* the chain client: [block, diff, steps]
  registered,       \* wallet.is_registered(subtensor)
  null_left,        \* null hashes the chain client may still return to this fetch
  curr_block,       \* multiprocessing.Array('h', 64)
  curr_block_num,   \* multiprocessing.Value('i', 0)
  curr_diff,        \* multiprocessing.Array('Q', [0, 0]): [high, low]
  check_block,      \* multiprocessing.Lock: "free" or its holder
  stopEvent,
  newBlockEvent,    \* one event per Solver
  solution_queue, best_queue, time_queue,
  main,             \* locals of solve_for_difficulty_fast
  solver,           \* locals of Solver.run, per process
  updates,          \* history: the arguments of every update_curr_block call
  mined_at_registration,
                    \* history: how many solutions the workers had pushed when
                    \* the wallet became registered
  gpu,              \* create_pow's dispatch and the locals of
                    \* solve_for_difficulty_fast_cuda
  call, ret,        \* a function called on its own: its arguments and its result
  nounce_dic,       \* AuthInterceptor.nounce_dic: endpoint_key -> nounce
  handled           \* history: the requests the interceptor handled, each with
                    \* its outcome

shared == << curr_block, curr_block_num, curr_diff >>
queues == << solution_queue, best_queue, time_queue >>
env == << chain, registered, null_left >>
axon == << nounce_dic, handled >>
pure == << gpu, call, ret, axon >>
rest == << mined_at_registration, gpu, call, ret, axon >>
vars == << chain, registered, null_left, curr_block, curr_block_num, curr_diff,
           check_block, stopEvent, newBlockEvent, solution_queue, best_queue,
           time_queue, main, solver, updates, mined_at_registration, gpu, call,
           ret, nounce_dic, handled >>

\* a Solver before its first refresh has no block_number, block_bytes or
\* block_difficulty (bound = FALSE)
SolverInitial ==
  [pc |-> "new", nonce_start |-> <<>>, nonce_end |-> <<>>, bound |-> FALSE,
   block_number |-> 0, block_bytes |-> <<>>, block_difficulty |-> <<>>,
   solution |-> None, ticks |-> 0, seen |-> 0]

MainInitial ==
  [pc |-> "first_block", block_number |-> <<>>, old_block_number |-> <<>>,
   difficulty |-> <<>>, block_hash |-> None, block_bytes |-> <<>>,
   solution |-> None, i |-> 0, started |-> FALSE,
   best_number |-> BestInit, returned |-> None, set_for |-> [w \in Procs |-> 0],
   saw_registered |-> FALSE, mined_at_exit |-> 0]

\* create_pow before its first statement, and after it has taken the branch of
\* line 559 (cuda = False).  tries counts the calls the retry decorator has
\* made for the fetch at hand, chain_calls the calls of the chain client on the
\* GPU path, batches the solve_cuda calls; advanced is nonce after line 525.
GpuInitial ==
  [pc |-> "create_pow", cuda |-> FALSE, available |-> FALSE,
   TPB |-> <<>>, update_interval |-> None,
   block_number |-> <<>>, difficulty |-> <<>>, block_hash |-> None,
   block_bytes |-> <<>>, nonce |-> <<>>, advanced |-> <<>>, solution |-> None,
   seal |-> <<>>, tries |-> 0, batches |-> 0, chain_calls |-> 0, reset |-> FALSE,
   raised |-> None, returned |-> None]

OnCpu == [GpuInitial EXCEPT !.pc = "cpu"]

\* solve_for_difficulty_fast before create_pow has called it
NotCalled == [MainInitial EXCEPT !.pc = "not_called"]

\* the wallet, and the objects of solve_for_difficulty_fast as it constructs
\* them
Fresh ==
  /\ registered = FALSE
  /\ curr_block = Zeros(64)
  /\ curr_block_num = 0
  /\ curr_diff = << <<>>, <<>> >>
  /\ check_block = "free"
  /\ stopEvent = FALSE
  /\ newBlockEvent = [w \in Procs |-> FALSE]
  /\ solution_queue = <<>>
  /\ best_queue = <<>>
  /\ time_queue = <<>>
  /\ solver = [w \in Procs |-> SolverInitial]
  /\ updates = <<>>
  /\ mined_at_registration = None
  /\ nounce_dic = <<>>
  /\ handled = <<>>

\* the state of the program when solve_for_difficulty_fast is entered
Constructed ==
  /\ null_left = MaxNullHash
  /\ gpu = OnCpu
  /\ main = MainInitial
  /\ Fresh

InitFrom(blocks) ==
  /\ chain \in [block : blocks, diff : Difficulties, steps : {0}]
  /\ Constructed
  /\ call = None
  /\ ret = None

Init == InitFrom(StartBlocks)
InitHigh == InitFrom(HighBlocks)

\* solutions pushed so far: the coordinator takes at most one off the queue
mined == Len(solution_queue) + Len(main.solution)

(***************************************************************************)
(* The chain and the wallet.                                               *)
(***************************************************************************)
ChainNewBlock ==
  /\ chain.steps < MaxBlocks
  /\ main.pc # "done"
  /\ \E d \in Difficulties :
       chain' = [block |-> BigAdd(chain.block, <<1>>), diff |-> d,
                 steps |-> chain.steps + 1]
  /\ UNCHANGED << registered, null_left, shared, check_block, stopEvent,
                  newBlockEvent, queues, main, solver, updates, rest >>

WalletRegistered ==
  /\ ~registered
  /\ main.pc # "done"
  /\ registered' = TRUE
  /\ mined_at_registration' = Some(mined)
  /\ UNCHANGED << chain, null_left, shared, check_block, stopEvent,
                  newBlockEvent, queues, main, solver, updates, pure >>

(***************************************************************************)
(* update_curr_block(curr_diff, curr_block, curr_block_num, block_number,  *)
(*                   block_bytes, diff, lock)                              *)
(***************************************************************************)
\* what a call leaves in the three cells
stored_num(block_number) == c_int(block_number)
stored_block(block_bytes) == [i \in 1..64 |-> c_short(block_bytes[i])]
stored_diff(diff) == registration_diff_pack(diff)

\* a lock that never makes anybody wait
lock_ignored(lock) == TRUE

\* a lock is taken only when nobody holds it
may_acquire(lock) == lock = "free"

\* an update_curr_block that writes without taking the lock
UpdateAcquireWithoutLock ==
  /\ main.pc = "update"
  /\ updates' = Append(updates, [block_number |-> main.block_number,
                                 block_bytes |-> main.block_bytes,
                                 diff |-> main.difficulty])
  /\ main' = [main EXCEPT !.pc = "update_num"]
  /\ UNCHANGED << env, shared, check_block, stopEvent, newBlockEvent, queues,
                  solver, rest >>

\* lines 293-294: with lock
UpdateAcquire ==
  /\ main.pc = "update"
  /\ may_acquire(check_block)
  /\ check_block' = "main"
  /\ updates' = Append(updates, [block_number |-> main.block_number,
                                 block_bytes |-> main.block_bytes,
                                 diff |-> main.difficulty])
  /\ main' = [main EXCEPT !.pc = "update_num"]
  /\ UNCHANGED << env, shared, stopEvent, newBlockEvent, queues, solver, rest >>

UpdateWriteNum ==
  /\ main.pc = "update_num"
  /\ curr_block_num' = stored_num(main.block_number)
  /\ main' = [main EXCEPT !.pc = "update_block"]
  /\ UNCHANGED << env, curr_block, curr_diff, check_block, stopEvent,
                  newBlockEvent, queues, solver, updates, rest >>

UpdateWriteBlock ==
  /\ main.pc = "update_block"
  /\ curr_block' = stored_block(main.block_bytes)
  /\ main' = [main EXCEPT !.pc = "update_diff"]
  /\ UNCHANGED << env, curr_block_num, curr_diff, check_block, stopEvent,
                  newBlockEvent, queues, solver, updates, rest >>

UpdateWriteDiff ==
  /\ main.pc = "update_diff"
  /\ curr_diff' = stored_diff(main.difficulty)
  /\ check_block' = "free"
  /\ main' = [main EXCEPT !.pc = "set_events", !.i = 0]
  /\ UNCHANGED << env, curr_block, curr_block_num, stopEvent, newBlockEvent,
                  queues, solver, updates, rest >>

(***************************************************************************)
(* solve_for_difficulty_fast (the coordinator).                            *)
(***************************************************************************)
\* line 354
MainFirstBlock ==
  /\ main.pc = "first_block"
  /\ main' = [main EXCEPT !.pc = "first_difficulty", !.block_number = chain.block]
  /\ UNCHANGED << env, shared, check_block, stopEvent, newBlockEvent, queues,
                  solver, updates, rest >>

\* line 355
MainFirstDifficulty ==
  /\ main.pc = "first_difficulty"
  /\ main' = [main EXCEPT !.pc = "first_hash", !.difficulty = chain.diff]
  /\ UNCHANGED << env, shared, check_block, stopEvent, newBlockEvent, queues,
                  solver, updates, rest >>

\* one call of subtensor.substrate.get_block_hash that returns None
HashIsNull(at) ==
  /\ main.pc = at
  /\ null_left > 0
  /\ null_left' = null_left - 1
  /\ main' = [main EXCEPT !.block_hash = None]
  /\ UNCHANGED << chain, registered, shared, check_block, stopEvent,
                  newBlockEvent, queues, solver, updates, rest >>

\* lines 356-360: the call that returns a hash ends the while loop
MainFirstHash ==
  \/ HashIsNull("first_hash")
  \/ /\ main.pc = "first_hash"
     /\ LET block_hash == get_block_hash(main.block_number)
        IN  main' = [main EXCEPT !.pc = "update",
                                 !.block_hash = Some(block_hash),
                                 !.block_bytes = strip_0x(block_hash),
                                 !.old_block_number = main.block_number]
     /\ null_left' = MaxNullHash
     /\ UNCHANGED << chain, registered, shared, check_block, stopEvent,
                     newBlockEvent, queues, solver, updates, rest >>

\* where the coordinator goes once every newBlockEvent is set
after_events(started) == IF started THEN "telemetry" ELSE "start"

\* a coordinator that raises the new-block signal of its first worker only
MainSetEventOfFirstWorker ==
  /\ main.pc = "set_events"
  /\ newBlockEvent' = [newBlockEvent EXCEPT ![main.i] = TRUE]
  /\ main' = [main EXCEPT !.i = 0,
                          !.set_for[main.i] = Len(updates),
                          !.pc = after_events(main.started)]
  /\ UNCHANGED << env, shared, check_block, stopEvent, queues, solver, updates, rest >>

\* lines 365-366 and 398-399: for w in solvers: w.newBlockEvent.set()
MainSetEvent ==
  /\ main.pc = "set_events"
  /\ newBlockEvent' = [newBlockEvent EXCEPT ![main.i] = TRUE]
  /\ main' = [main EXCEPT !.i = IF main.i + 1 = num_processes THEN 0 ELSE main.i + 1,
                          !.set_for[main.i] = Len(updates),
                          !.pc = IF main.i + 1 = num_processes
                                 THEN after_events(main.started) ELSE "set_events"]
  /\ UNCHANGED << env, shared, check_block, stopEvent, queues, solver, updates, rest >>

\* lines 368-369: for w in solvers: w.start()
MainStart ==
  /\ main.pc = "start"
  /\ solver' = [solver EXCEPT ![main.i].pc = "run"]
  /\ main' = [main EXCEPT !.i = IF main.i + 1 = num_processes THEN 0 ELSE main.i + 1,
                          !.started = (main.i + 1 = num_processes),
                          !.pc = IF main.i + 1 = num_processes
                                 THEN "while" ELSE "start"]
  /\ UNCHANGED << env, shared, check_block, stopEvent, newBlockEvent, queues,
                  updates, rest >>

\* line 375: while not wallet.is_registered(subtensor)
MainWhile ==
  /\ main.pc = "while"
  /\ main' = [main EXCEPT !.pc = IF registered THEN "stop" ELSE "poll",
                          !.saw_registered = registered,
                          !.mined_at_exit = IF registered THEN mined ELSE @]
  /\ UNCHANGED << env, shared, check_block, stopEvent, newBlockEvent, queues,
                  solver, updates, rest >>

\* a poll that takes the newest solution of the queue instead of the oldest
MainPollTakesNewest ==
  /\ main.pc = "poll"
  /\ IF solution_queue # <<>>
     THEN /\ main' = [main EXCEPT
                        !.solution = Some(solution_queue[Len(solution_queue)]),
                        !.pc = "stop"]
          /\ solution_queue' = SubSeq(solution_queue, 1, Len(solution_queue) - 1)
     ELSE /\ main' = [main EXCEPT !.pc = "check_block"]
          /\ UNCHANGED solution_queue
  /\ UNCHANGED << env, shared, check_block, stopEvent, newBlockEvent,
                  best_queue, time_queue, solver, updates, rest >>

\* the poll without its break: a dequeued solution is kept and the loop goes on
MainPollKeepsLooping ==
  /\ main.pc = "poll"
  /\ IF solution_queue # <<>>
     THEN /\ main' = [main EXCEPT !.solution = Some(Head(solution_queue)),
                                  !.pc = "check_block"]
          /\ solution_queue' = Tail(solution_queue)
     ELSE /\ main' = [main EXCEPT !.pc = "check_block"]
          /\ UNCHANGED solution_queue
  /\ UNCHANGED << env, shared, check_block, stopEvent, newBlockEvent,
                  best_queue, time_queue, solver, updates, rest >>

\* lines 377-383: solution_queue.get(block=True, timeout=0.25)
MainPoll ==
  /\ main.pc = "poll"
  /\ IF solution_queue # <<>>
     THEN /\ main' = [main EXCEPT !.solution = Some(Head(solution_queue)),
                                  !.pc = "stop"]
          /\ solution_queue' = Tail(solution_queue)
     ELSE /\ main' = [main EXCEPT !.pc = "check_block"]
          /\ UNCHANGED solution_queue
  /\ UNCHANGED << env, shared, check_block, stopEvent, newBlockEvent,
                  best_queue, time_queue, solver, updates, rest >>

\* lines 386-388
MainCheckBlock ==
  /\ main.pc = "check_block"
  /\ main' = [main EXCEPT
                !.block_number = chain.block,
                !.old_block_number =
                   IF chain.block # main.old_block_number
                   THEN chain.block ELSE main.old_block_number,
                !.pc = IF chain.block # main.old_block_number
                       THEN "hash" ELSE "telemetry"]
  /\ UNCHANGED << env, shared, check_block, stopEvent, newBlockEvent, queues,
                  solver, updates, rest >>

\* lines 390-393
MainHash ==
  \/ HashIsNull("hash")
  \/ /\ main.pc = "hash"
     /\ LET block_hash == get_block_hash(main.block_number)
        IN  main' = [main EXCEPT !.pc = "difficulty",
                                 !.block_hash = Some(block_hash),
                                 !.block_bytes = strip_0x(block_hash)]
     /\ null_left' = MaxNullHash
     /\ UNCHANGED << chain, registered, shared, check_block, stopEvent,
                     newBlockEvent, queues, solver, updates, rest >>

\* the block turnover without its update_curr_block call: the signals are
\* raised right after the difficulty is fetched
MainDifficultySkipsUpdate ==
  /\ main.pc = "difficulty"
  /\ main' = [main EXCEPT !.pc = "set_events", !.i = 0, !.difficulty = chain.diff]
  /\ UNCHANGED << env, shared, check_block, stopEvent, newBlockEvent, queues,
                  solver, updates, rest >>

\* line 394
MainDifficulty ==
  /\ main.pc = "difficulty"
  /\ main' = [main EXCEPT !.pc = "update", !.difficulty = chain.diff]
  /\ UNCHANGED << env, shared, check_block, stopEvent, newBlockEvent, queues,
                  solver, updates, rest >>

\* lines 419-427: the smallest margin of the drained entries and the old best
best_of(q, best) ==
  LET after[i \in 0..Len(q)] ==
        IF i = 0 THEN best
        ELSE LET prev == after[i - 1]
             IN  IF ~q[i].inf /\ (prev.inf \/ BigLess(q[i].margin, prev.margin))
                 THEN q[i] ELSE prev
  IN  after[Len(q)]

\* lines 401-436: both telemetry queues are drained
MainTelemetry ==
  /\ main.pc = "telemetry"
  /\ time_queue' = <<>>
  /\ best_queue' = <<>>
  /\ main' = [main EXCEPT !.pc = "while",
                          !.best_number = best_of(best_queue, main.best_number)]
  /\ UNCHANGED << env, shared, check_block, stopEvent, newBlockEvent,
                  solution_queue, solver, updates, rest >>

\* line 439
MainStop ==
  /\ main.pc = "stop"
  /\ stopEvent' = TRUE
  /\ main' = [main EXCEPT !.pc = "return"]
  /\ UNCHANGED << env, shared, check_block, newBlockEvent, queues, solver,
                  updates, rest >>

\* lines 561-566: what create_pow makes of the solver's result
create_pow(solution) ==
  IF solution = None THEN None
  ELSE Some([nonce |-> solution[1].nonce, difficulty |-> solution[1].difficulty,
             block_number |-> solution[1].block_number,
             work |-> hexlify(solution[1].seal)])

\* line 442
MainReturn ==
  /\ main.pc = "return"
  /\ main' = [main EXCEPT !.pc = "done", !.returned = main.solution]
  /\ UNCHANGED << env, shared, check_block, stopEvent, newBlockEvent, queues,
                  solver, updates, rest >>

(***************************************************************************)
(* Solver.run (a worker process).                                          *)
(***************************************************************************)
\* lines 223-227
SolverRun(w) ==
  /\ solver[w].pc = "run"
  /\ \E r \in RandomNonces :
       solver' = [solver EXCEPT ![w].pc = "while",
                                ![w].nonce_start = r,
                                ![w].nonce_end = BigAdd(r, BigFromNat(update_interval))]
  /\ UNCHANGED << env, shared, check_block, stopEvent, newBlockEvent, queues,
                  main, updates, rest >>

\* a loop test that lets a pending new-block signal be served before the stop
SolverWhileNewBlockFirst(w) ==
  /\ solver[w].pc = "while"
  /\ stopEvent \/ solver[w].ticks < MaxTicks
  /\ solver' = [solver EXCEPT
                  ![w].pc = IF stopEvent /\ ~newBlockEvent[w] THEN "stopped"
                            ELSE "if_new"]
  /\ UNCHANGED << env, shared, check_block, stopEvent, newBlockEvent, queues,
                  main, updates, rest >>

\* a loop test that honours the stop only once the worker is out of sweeps
SolverWhileFinishesItsTicks(w) ==
  /\ solver[w].pc = "while"
  /\ stopEvent \/ solver[w].ticks < MaxTicks
  /\ solver' = [solver EXCEPT
                  ![w].pc = IF stopEvent /\ solver[w].ticks >= MaxTicks
                            THEN "stopped" ELSE "if_new"]
  /\ UNCHANGED << env, shared, check_block, stopEvent, newBlockEvent, queues,
                  main, updates, rest >>

\* line 228: while not self.stopEvent.is_set(); a worker that has used up its
\* sweeps waits here
SolverWhile(w) ==
  /\ solver[w].pc = "while"
  /\ stopEvent \/ solver[w].ticks < MaxTicks
  /\ solver' = [solver EXCEPT ![w].pc = IF stopEvent THEN "stopped" ELSE "if_new"]
  /\ UNCHANGED << env, shared, check_block, stopEvent, newBlockEvent, queues,
                  main, updates, rest >>

\* line 229: if self.newBlockEvent.is_set()
SolverIfNewBlock(w) ==
  /\ solver[w].pc = "if_new"
  /\ solver' = [solver EXCEPT
                  ![w].pc = IF newBlockEvent[w] THEN "read" ELSE "sweep",
                  ![w].seen = IF newBlockEvent[w] THEN main.set_for[w] ELSE @]
  /\ UNCHANGED << env, shared, check_block, stopEvent, newBlockEvent, queues,
                  main, updates, rest >>

\* lines 230-233: with self.check_block, the three reads, and the release
SolverRead(w) ==
  /\ solver[w].pc = "read"
  /\ may_acquire(check_block)
  /\ solver' = [solver EXCEPT
                  ![w].pc = "clear",
                  ![w].bound = TRUE,
                  ![w].block_number = curr_block_num,
                  ![w].block_bytes = curr_block,
                  ![w].block_difficulty = registration_diff_unpack(curr_diff)]
  /\ UNCHANGED << env, shared, check_block, stopEvent, newBlockEvent, queues,
                  main, updates, rest >>

\* lines 235-240
SolverClear(w) ==
  /\ solver[w].pc = "clear"
  /\ newBlockEvent' = [newBlockEvent EXCEPT ![w] = FALSE]
  /\ \E r \in RandomNonces :
       solver' = [solver EXCEPT ![w].pc = "sweep",
                                ![w].nonce_start = r,
                                ![w].nonce_end = BigAdd(r, BigFromNat(update_interval))]
  /\ UNCHANGED << env, shared, check_block, stopEvent, queues, main, updates, rest >>

\* the sweeps of the runs below, computed once: a sweep is a function of its
\* arguments, and any other sweep is computed when it happens
SweepArgs ==
  { << s, BigAdd(s, BigFromNat(update_interval)),
       stored_block(strip_0x(get_block_hash(b))),
       registration_diff_unpack(stored_diff(d)), stored_num(b) >> :
    s \in { BigAdd(r, BigFromNat(k * update_interval * num_processes)) :
              r \in RandomNonces, k \in 0..MaxTicks },
    b \in { BigAdd(b0, BigFromNat(k)) : b0 \in StartBlocks \cup HighBlocks,
                                         k \in 0..MaxBlocks },
    d \in Difficulties }

SweepTable ==
  [a \in SweepArgs |-> solve_for_nonce_block(a[1], a[2], a[3], a[4], limit, a[5])]

sweep(nonce_start, nonce_end, block_bytes, difficulty, block_number) ==
  LET a == << nonce_start, nonce_end, block_bytes, difficulty, block_number >>
  IN  IF a \in DOMAIN SweepTable THEN SweepTable[a]
      ELSE solve_for_nonce_block(nonce_start, nonce_end, block_bytes, difficulty,
                                 limit, block_number)

\* line 243 with lines 254-279; an exception ends the process
SolverSweep(w) ==
  /\ solver[w].pc = "sweep"
  /\ LET me == solver[w]
         r == sweep(me.nonce_start, me.nonce_end, me.block_bytes,
                    me.block_difficulty, me.block_number)
     IN  IF ~me.bound \/ r.kind = "raise"
         THEN /\ solver' = [solver EXCEPT ![w].pc = "crashed"]
              /\ UNCHANGED best_queue
         ELSE /\ solver' = [solver EXCEPT
                              ![w].pc = IF r.kind = "solution" THEN "put_solution"
                                        ELSE "put_time",
                              ![w].solution = r.solution]
              /\ best_queue' = IF r.kind = "none" THEN Append(best_queue, r.best)
                               ELSE best_queue
  /\ UNCHANGED << env, shared, check_block, stopEvent, newBlockEvent,
                  solution_queue, time_queue, main, updates, rest >>

\* a worker that ends its run once it has pushed a solution
SolverPutSolutionAndStop(w) ==
  /\ solver[w].pc = "put_solution"
  /\ solution_queue' = Append(solution_queue, solver[w].solution[1])
  /\ solver' = [solver EXCEPT ![w].pc = "stopped"]
  /\ UNCHANGED << env, shared, check_block, stopEvent, newBlockEvent,
                  best_queue, time_queue, main, updates, rest >>

\* lines 244-245
SolverPutSolution(w) ==
  /\ solver[w].pc = "put_solution"
  /\ solution_queue' = Append(solution_queue, solver[w].solution[1])
  /\ solver' = [solver EXCEPT ![w].pc = "put_time"]
  /\ UNCHANGED << env, shared, check_block, stopEvent, newBlockEvent,
                  best_queue, time_queue, main, updates, rest >>

\* a worker that moves its interval on by its own width only
SolverPutTimeByOneInterval(w) ==
  /\ solver[w].pc = "put_time"
  /\ time_queue' = Append(time_queue, "elapsed")
  /\ LET step == BigFromNat(update_interval)
     IN  solver' = [solver EXCEPT
                      ![w].pc = "while",
                      ![w].ticks = @ + 1,
                      ![w].nonce_start = BigAdd(@, step),
                      ![w].nonce_end = BigAdd(@, step)]
  /\ UNCHANGED << env, shared, check_block, stopEvent, newBlockEvent,
                  solution_queue, best_queue, main, updates, rest >>

\* lines 248-251
SolverPutTime(w) ==
  /\ solver[w].pc = "put_time"
  /\ time_queue' = Append(time_queue, "elapsed")
  /\ LET step == BigFromNat(update_interval * num_processes)
     IN  solver' = [solver EXCEPT
                      ![w].pc = "while",
                      ![w].ticks = @ + 1,
                      ![w].nonce_start = BigAdd(@, step),
                      ![w].nonce_end = BigAdd(@, step)]
  /\ UNCHANGED << env, shared, check_block, stopEvent, newBlockEvent,
                  solution_queue, best_queue, main, updates, rest >>

(***************************************************************************)
(* create_pow and solve_for_difficulty_fast_cuda (the GPU path).           *)
(***************************************************************************)
\* what the GPU path leaves alone
cpu == << shared, check_block, stopEvent, newBlockEvent, queues, solver,
          updates, mined_at_registration, call, ret, axon >>

\* max_tries of the decorator of get_block_with_retry
max_tries == 3

\* update_interval = 50_000 when the caller passes None
DefaultInterval == BigFromNat(50000)

\* values of tpb (256 is create_pow's default, 512 the default of
\* solve_for_difficulty_fast_cuda) and of update_interval the caller passes
TPBs == { BigFromNat(256), BigFromNat(512) }
Intervals == { None, Some(BigPow2(54)), Some(BigAdd(BigPow2(55), <<1>>)) }

\* int(math.pow(2,63))
two_pow_63 == BigPow2(63)

\* lines 556-559: the dispatch on cuda
CreatePow ==
  /\ gpu.pc = "create_pow"
  /\ IF gpu.cuda
     THEN /\ gpu' = [gpu EXCEPT !.pc = "is_available"]
          /\ UNCHANGED main
     ELSE /\ gpu' = [gpu EXCEPT !.pc = "cpu"]
          /\ main' = [main EXCEPT !.pc = "first_block"]
  /\ UNCHANGED << env, cpu >>

\* an availability test that hands the call to the CPU solver
GpuIsAvailableFallsBack ==
  /\ gpu.pc = "is_available"
  /\ IF ~gpu.available
     THEN /\ gpu' = [gpu EXCEPT !.pc = "cpu"]
          /\ main' = [main EXCEPT !.pc = "first_block"]
     ELSE /\ gpu' = [gpu EXCEPT
                       !.pc = "first_fetch",
                       !.update_interval =
                          IF @ = None THEN Some(DefaultInterval) ELSE @]
          /\ UNCHANGED main
  /\ UNCHANGED << env, cpu >>

\* lines 486-490
GpuIsAvailable ==
  /\ gpu.pc = "is_available"
  /\ IF ~gpu.available
     THEN /\ gpu' = [gpu EXCEPT !.pc = "raised",
                                !.raised = Some("CUDA not available")]
          /\ UNCHANGED main
     ELSE /\ gpu' = [gpu EXCEPT
                       !.pc = "first_fetch",
                       !.update_interval =
                          IF @ = None THEN Some(DefaultInterval) ELSE @]
          /\ UNCHANGED main
  /\ UNCHANGED << env, cpu >>

\* a decorator that lets the exception through at the second failed call
GetBlockWithRetryGivesUpEarly ==
  /\ gpu.pc \in { "first_fetch", "refetch" }
  /\ \/ /\ null_left > 0
        /\ null_left' = null_left - 1
        /\ gpu' = [gpu EXCEPT
                     !.tries = @ + 1,
                     !.chain_calls = @ + 1,
                     !.block_hash = None,
                     !.pc = IF gpu.tries + 1 >= max_tries - 1 THEN "raised" ELSE @,
                     !.raised = IF gpu.tries + 1 >= max_tries - 1
                                THEN Some("Network error") ELSE @]
     \/ /\ null_left' = MaxNullHash
        /\ LET block_hash == get_block_hash(chain.block)
           IN  gpu' = [gpu EXCEPT
                         !.tries = @ + 1,
                         !.chain_calls = @ + 1,
                         !.block_number = chain.block,
                         !.difficulty = chain.diff,
                         !.block_hash = Some(block_hash),
                         !.block_bytes = strip_0x(block_hash),
                         !.pc = "while"]
  /\ UNCHANGED << chain, registered, main, cpu >>

\* lines 459-469, called at lines 492 and 531: one call of the decorated
\* function.  A null hash raises (line 468); the decorator calls again until
\* max_tries calls were made, then lets the exception through.
GetBlockWithRetry ==
  /\ gpu.pc \in { "first_fetch", "refetch" }
  /\ \/ /\ null_left > 0
        /\ null_left' = null_left - 1
        /\ gpu' = [gpu EXCEPT
                     !.tries = @ + 1,
                     !.chain_calls = @ + 1,
                     !.block_hash = None,
                     !.pc = IF gpu.tries + 1 >= max_tries THEN "raised" ELSE @,
                     !.raised = IF gpu.tries + 1 >= max_tries
                                THEN Some("Network error") ELSE @]
     \/ /\ null_left' = MaxNullHash
        /\ LET block_hash == get_block_hash(chain.block)
           IN  gpu' = [gpu EXCEPT
                         !.tries = @ + 1,
                         !.chain_calls = @ + 1,
                         !.block_number = chain.block,
                         !.difficulty = chain.diff,
                         !.block_hash = Some(block_hash),
                         !.block_bytes = strip_0x(block_hash),
                         !.pc = "while"]
  /\ UNCHANGED << chain, registered, main, cpu >>

\* line 507: while solution == -1 and not wallet.is_registered(subtensor)
GpuWhile ==
  /\ gpu.pc = "while"
  /\ gpu' = [gpu EXCEPT !.pc = IF registered THEN "exit" ELSE "solve"]
  /\ UNCHANGED << env, main, cpu >>

\* solve_cuda: a found nonce of the batch and its seal, or the sentinel (no
\* solution); of the batch, the first two nonces are looked at
solve_cuda(nonce, block_bytes, difficulty) ==
  LET found == { n \in { nonce, BigAdd(nonce, <<1>>) } :
                   seal_meets_difficulty(
                     seal_of(to_bytes_little(n, 8), block_bytes), difficulty) }
  IN  { [solution |-> None, seal |-> <<>>] } \cup
      { [solution |-> Some(n),
         seal |-> seal_of(to_bytes_little(n, 8), block_bytes)] : n \in found }

\* lines 508-515
GpuSolve ==
  /\ gpu.pc = "solve"
  /\ gpu.batches < MaxBatches
  /\ \E r \in solve_cuda(gpu.nonce, gpu.block_bytes, gpu.difficulty) :
       gpu' = [gpu EXCEPT !.batches = @ + 1,
                          !.solution = r.solution,
                          !.seal = r.seal,
                          !.pc = IF r.solution # None THEN "found" ELSE "advance"]
  /\ UNCHANGED << env, main, cpu >>

\* a return that takes the block number of the chain's newest block (line 521)
GpuFoundWithNewestBlock ==
  /\ gpu.pc = "found"
  /\ gpu' = [gpu EXCEPT
               !.pc = "done",
               !.reset = TRUE,
               !.chain_calls = @ + 1,
               !.returned = Some(POWSolution(gpu.solution[1], chain.block,
                                             gpu.difficulty, gpu.seal))]
  /\ UNCHANGED << env, main, cpu >>

\* lines 517-523
GpuFound ==
  /\ gpu.pc = "found"
  /\ gpu' = [gpu EXCEPT
               !.pc = "done",
               !.reset = TRUE,
               !.chain_calls = @ + 1,
               !.returned = Some(POWSolution(gpu.solution[1], gpu.block_number,
                                             gpu.difficulty, gpu.seal))]
  /\ UNCHANGED << env, main, cpu >>

\* an advance that wraps only above 2^63
GpuAdvanceWrapsAbove ==
  /\ gpu.pc = "advance"
  /\ LET advanced == BigAdd(gpu.nonce, BigMul(gpu.TPB, gpu.update_interval[1]))
     IN  gpu' = [gpu EXCEPT
                   !.pc = "refetch",
                   !.tries = 0,
                   !.advanced = advanced,
                   !.nonce = IF BigLess(two_pow_63, advanced) THEN <<>>
                             ELSE advanced]
  /\ UNCHANGED << env, main, cpu >>

\* lines 525-527
GpuAdvance ==
  /\ gpu.pc = "advance"
  /\ LET advanced == BigAdd(gpu.nonce, BigMul(gpu.TPB, gpu.update_interval[1]))
     IN  gpu' = [gpu EXCEPT
                   !.pc = "refetch",
                   !.tries = 0,
                   !.advanced = advanced,
                   !.nonce = IF BigLeq(two_pow_63, advanced) THEN <<>>
                             ELSE advanced]
  /\ UNCHANGED << env, main, cpu >>

\* lines 544-547
GpuExit ==
  /\ gpu.pc = "exit"
  /\ gpu' = [gpu EXCEPT !.pc = "done", !.reset = TRUE, !.returned = None]
  /\ UNCHANGED << env, main, cpu >>

Next ==
  \/ ChainNewBlock
  \/ WalletRegistered
  \/ MainFirstBlock
  \/ MainFirstDifficulty
  \/ MainFirstHash
  \/ UpdateAcquire
  \/ UpdateWriteNum
  \/ UpdateWriteBlock
  \/ UpdateWriteDiff
  \/ MainSetEvent
  \/ MainStart
  \/ MainWhile
  \/ MainPoll
  \/ MainCheckBlock
  \/ MainHash
  \/ MainDifficulty
  \/ MainTelemetry
  \/ MainStop
  \/ MainReturn
  \/ \E w \in Procs :
       \/ SolverRun(w)
       \/ SolverWhile(w)
       \/ SolverIfNewBlock(w)
       \/ SolverRead(w)
       \/ SolverClear(w)
       \/ SolverSweep(w)
       \/ SolverPutSolution(w)
       \/ SolverPutTime(w)

\* one step of worker w
SolverStep(w) ==
  \/ SolverRun(w)
  \/ SolverWhile(w)
  \/ SolverIfNewBlock(w)
  \/ SolverRead(w)
  \/ SolverClear(w)
  \/ SolverSweep(w)
  \/ SolverPutSolution(w)
  \/ SolverPutTime(w)

\* a call of the chain client or of the wallet inside the loop of lines 375-436
\* raises (is_registered at line 375, get_current_block at line 386,
\* get_block_hash at lines 390-392, difficulty at line 394): the exception
\* leaves solve_for_difficulty_fast
MainRaises ==
  /\ main.started
  /\ main.pc \in { "while", "check_block", "hash", "difficulty" }
  /\ main' = [main EXCEPT !.pc = "raised"]
  /\ UNCHANGED << env, shared, check_block, stopEvent, newBlockEvent, queues,
                  solver, updates, rest >>

\* one step of the coordinator
MainStep ==
  \/ MainFirstBlock
  \/ MainFirstDifficulty
  \/ MainFirstHash
  \/ UpdateAcquire
  \/ UpdateWriteNum
  \/ UpdateWriteBlock
  \/ UpdateWriteDiff
  \/ MainSetEvent
  \/ MainStart
  \/ MainWhile
  \/ MainPoll
  \/ MainCheckBlock
  \/ MainHash
  \/ MainDifficulty
  \/ MainTelemetry
  \/ MainStop
  \/ MainReturn

Spec == Init /\ [][Next]_vars

\* the solver started at the low difficulty (a new block may raise it)
InitFair == Init /\ chain.diff = <<3>>

\* the workers are operating-system processes: as long as one of them can take
\* a step, a worker's step is taken in the end
SpecFair == InitFair /\ [][Next]_vars /\ WF_vars(\E w \in Procs : SolverStep(w))

\* the coordinator's process runs as well: its calls return (the queue poll
\* after its timeout of 0.25 s at the latest)
SpecLive ==
  /\ InitFair
  /\ [][Next]_vars
  /\ WF_vars(MainStep)
  /\ WF_vars(\E w \in Procs : SolverStep(w))

\* the same program with two sweeps allotted to worker 0 and none to worker 1
\* (ticks is counted against MaxTicks)
InitSolo ==
  /\ chain \in [block : StartBlocks, diff : Difficulties, steps : {0}]
  /\ null_left = MaxNullHash
  /\ gpu = OnCpu
  /\ main = MainInitial
  /\ registered = FALSE
  /\ curr_block = Zeros(64)
  /\ curr_block_num = 0
  /\ curr_diff = << <<>>, <<>> >>
  /\ check_block = "free"
  /\ stopEvent = FALSE
  /\ newBlockEvent = [w \in Procs |-> FALSE]
  /\ solution_queue = <<>>
  /\ best_queue = <<>>
  /\ time_queue = <<>>
  /\ solver = [w \in Procs |->
                 [SolverInitial EXCEPT
                    !.ticks = IF w = 0 THEN MaxTicks - 2 ELSE MaxTicks]]
  /\ updates = <<>>
  /\ mined_at_registration = None
  /\ nounce_dic = <<>>
  /\ handled = <<>>
  /\ call = None
  /\ ret = None

SpecSolo == InitSolo /\ [][Next]_vars

\* the same program with a chain client and a wallet whose calls may fail
NextErr ==
  \/ Next
  \/ MainRaises

SpecErr == InitFair /\ [][NextErr]_vars

\* the same program on a chain whose block number is about to pass 2^31 - 1
SpecHigh == InitHigh /\ [][Next]_vars

\* create_pow from its call: either path, with the arguments the caller may
\* pass.  On the CPU path the coordinator runs; what the worker processes do
\* once started is in Spec.
InitPow ==
  /\ chain \in [block : StartBlocks, diff : Difficulties, steps : {0}]
  /\ null_left = MaxNullHash
  /\ main = NotCalled
  /\ Fresh
  /\ gpu \in { GpuInitial } \cup
             { [GpuInitial EXCEPT !.cuda = TRUE, !.available = av, !.TPB = t,
                                  !.update_interval = u] :
               av \in BOOLEAN, t \in TPBs, u \in Intervals }
  /\ call = None
  /\ ret = None

NextPow ==
  \/ ChainNewBlock
  \/ WalletRegistered
  \/ CreatePow
  \/ GpuIsAvailable
  \/ GetBlockWithRetry
  \/ GpuWhile
  \/ GpuSolve
  \/ GpuFound
  \/ GpuAdvance
  \/ GpuExit
  \/ MainFirstBlock
  \/ MainFirstDifficulty
  \/ MainFirstHash
  \/ UpdateAcquire
  \/ UpdateWriteNum
  \/ UpdateWriteBlock
  \/ UpdateWriteDiff
  \/ MainSetEvent
  \/ MainStart
  \/ MainWhile
  \/ MainPoll
  \/ MainCheckBlock
  \/ MainHash
  \/ MainDifficulty
  \/ MainTelemetry
  \/ MainStop
  \/ MainReturn

SpecPow == InitPow /\ [][NextPow]_vars

(***************************************************************************)
(* Functions on their own: the arguments are drawn in the initial state    *)
(* and the one action calls the function.  The solver is not running.      *)
(***************************************************************************)
Quiet ==
  /\ chain = [block |-> BigFromNat(100), diff |-> <<3>>, steps |-> 0]
  /\ Constructed
  /\ ret = None

Seals == { SealTable[i] : i \in 1..Len(SealTable) }

\* difficulties around the boundaries of the seals above, 0 and 2^64 - 1 included
MeetsDifficulties ==
  { <<>>, <<1>>, <<2>>, <<3>>, <<4>>, BigSub(BigPow2(64), <<1>>), BigPow2(64),
    BigAdd(BigPow2(64), <<1>>) }

InitMeets ==
  /\ Quiet
  /\ call \in [seal : Seals, difficulty : MeetsDifficulties]

CallSealMeetsDifficulty ==
  /\ ret = None
  /\ ret' = Some(seal_meets_difficulty(call.seal, call.difficulty))
  /\ UNCHANGED << env, shared, check_block, stopEvent, newBlockEvent, queues,
                  main, solver, updates, mined_at_registration, gpu, call, axon >>

SpecMeets == InitMeets /\ [][CallSealMeetsDifficulty]_vars

\* sweeps of update_interval nonces from every residue of the seal table, on two
\* blocks
SweepCalls ==
  { [nonce_start |-> BigFromNat(n),
     nonce_end |-> BigFromNat(n + update_interval),
     block_bytes |-> strip_0x(get_block_hash(b)),
     difficulty |-> d,
     block_number |-> NatFromBig(b)] :
    n \in 0..(Len(SealTable) - 1),
    b \in { BigFromNat(100), BigFromNat(101) },
    d \in { <<1>>, <<3>>, BigPow2(64) } }

InitSweep ==
  /\ Quiet
  /\ call \in SweepCalls

CallSolveForNonceBlock ==
  /\ ret = None
  /\ ret' = Some(solve_for_nonce_block(call.nonce_start, call.nonce_end,
                                       call.block_bytes, call.difficulty, limit,
                                       call.block_number))
  /\ UNCHANGED << env, shared, check_block, stopEvent, newBlockEvent, queues,
                  main, solver, updates, mined_at_registration, gpu, call, axon >>

SpecSweep == InitSweep /\ [][CallSolveForNonceBlock]_vars

\* a staleness test with the comparison >
POWNotStaleStrictly(current_block, block_number) ==
  block_number > current_block - 3

\* lines 129-133, current_block being subtensor.get_current_block()
POWNotStale(current_block, block_number) ==
  block_number >= current_block - 3

\* block numbers of a solution and of the chain, up to 9 blocks apart either way
StaleBlocks == 95..104

InitStale ==
  /\ Quiet
  /\ call \in [block_number : StaleBlocks, current_block : StaleBlocks]

CallPOWNotStale ==
  /\ ret = None
  /\ ret' = Some(POWNotStale(call.current_block, call.block_number))
  /\ UNCHANGED << env, shared, check_block, stopEvent, newBlockEvent, queues,
                  main, solver, updates, mined_at_registration, gpu, call, axon >>

SpecStale == InitStale /\ [][CallPOWNotStale]_vars

\* difficulties below 2^64: every mix of 0, 1 and 255 in the lowest and the
\* highest byte of either 32-bit word, and the values around 2^32
PackDifficulties ==
  { Normalise(<< a, 0, 0, b, c, 0, 0, d >>) :
      a \in {0, 1, 255}, b \in {0, 1, 255}, c \in {0, 1, 255}, d \in {0, 1, 255} }
  \cup { BigSub(BigPow2(32), <<1>>), BigPow2(32), BigSub(BigPow2(64), <<1>>) }

InitPack ==
  /\ Quiet
  /\ call \in [diff : PackDifficulties]

\* lines 287-290 write the array, lines 282-284 read it
CallPackUnpack ==
  /\ ret = None
  /\ LET packed_diff == registration_diff_pack(call.diff)
     IN  ret' = Some([packed_diff |-> packed_diff,
                      diff |-> registration_diff_unpack(packed_diff)])
  /\ UNCHANGED << env, shared, check_block, stopEvent, newBlockEvent, queues,
                  main, solver, updates, mined_at_registration, gpu, call, axon >>

SpecPack == InitPack /\ [][CallPackUnpack]_vars

\* the loop of lines 104-109 from the value nonce holds on entry: (nonce, seal)
\* of line 110
RECURSIVE solve_from(_, _, _)
solve_from(block_hash, difficulty, nonce) ==
  LET next == nonce + 1
      seal == create_seal_hash(block_hash, BigFromNat(next))
      meets == seal_meets_difficulty(seal, difficulty)
  IN  IF next > 1 \/ meets THEN [nonce |-> next, seal |-> seal]
      ELSE solve_from(block_hash, difficulty, next)

\* a helper that leaves its loop at the end of the first iteration
solve_for_difficulty_single(block_hash, difficulty) ==
  [nonce |-> 0, seal |-> create_seal_hash(block_hash, <<>>)]

\* lines 101-110
solve_for_difficulty(block_hash, difficulty) ==
  solve_from(block_hash, difficulty, -1)

\* hashes of twelve blocks
HelperBlocks == { BigFromNat(n) : n \in 100..111 }

InitHelper ==
  /\ Quiet
  /\ call \in [block_hash : { get_block_hash(b) : b \in HelperBlocks },
                difficulty : MeetsDifficulties]

CallSolveForDifficulty ==
  /\ ret = None
  /\ ret' = Some(solve_for_difficulty(call.block_hash, call.difficulty))
  /\ UNCHANGED << env, shared, check_block, stopEvent, newBlockEvent, queues,
                  main, solver, updates, mined_at_registration, gpu, call, axon >>

SpecHelper == InitHelper /\ [][CallSolveForDifficulty]_vars

(***************************************************************************)
(* AuthInterceptor (bittensor/_axon/__init__.py).  A request's metadata is *)
(* taken as already split: meta[0] is header, the fields of meta[1] around *)
(* 'bitxx' are nounce, pubkey, message and unique_receptor_uid.  A         *)
(* signature is what it was made with: the key that signed and the text    *)
(* that was signed.                                                        *)
(***************************************************************************)
\* requests the interceptor may handle
MaxRequests == 3

\* ss58 addresses of two hotkeys, a key that belongs to neither, receptor uids,
\* and nounces (the sender's clock) on both sides of the window of 10
Pubkeys == { "5Alice", "5Bob" }
OtherKey == "5Mallory"
ReceptorUids == { "7" }
Nounces == { 20, 25, 40 }

valid_metadata == << "rpc-auth-header", "Bittensor" >>
Headers == { valid_metadata, << "rpc-auth-header", "Other" >> }

\* the text a sender signs: str(nounce) + str(pubkey) + str(unique_receptor_uid)
signed_text(nounce, pubkey, unique_receptor_uid) ==
  ToString(nounce) \o pubkey \o unique_receptor_uid

Metadata ==
  { [header |-> h, nounce |-> n, pubkey |-> p, unique_receptor_uid |-> u,
     message |-> [key |-> k, text |-> signed_text(n, p, u)]] :
      h \in Headers, n \in Nounces, p \in Pubkeys, u \in ReceptorUids,
      k \in Pubkeys \cup { OtherKey } }

\* Keypair(ss58_address = pubkey).verify(data, signature)
verify(pubkey, data, signature) ==
  signature.key = pubkey /\ signature.text = data

\* lines 329-356: the table after the call and the value returned
vertification(dic, meta) ==
  LET nounce == meta.nounce
      pubkey == meta.pubkey
      message == meta.message
      unique_receptor_uid == meta.unique_receptor_uid
      endpoint_key == pubkey \o unique_receptor_uid
      data == signed_text(nounce, pubkey, unique_receptor_uid)
  IN  IF endpoint_key \in DOMAIN dic
      THEN IF nounce - dic[endpoint_key] > -10
           THEN [nounce_dic |-> [dic EXCEPT ![endpoint_key] = nounce],
                 verification |-> verify(pubkey, data, message)]
           ELSE [nounce_dic |-> dic, verification |-> FALSE]
      ELSE [nounce_dic |-> dic @@ (endpoint_key :> nounce),
            verification |-> verify(pubkey, data, message)]

\* lines 366-373
version_checking(meta) == meta.header = valid_metadata

\* lines 307-326, with blacklist = None (line 380): the table after the call,
\* whether the request went on to its handler, and self.message otherwise
intercept_service(dic, meta) ==
  IF ~version_checking(meta)
  THEN [nounce_dic |-> dic, served |-> FALSE,
        message |-> "Incorrect Metadata format"]
  ELSE LET v == vertification(dic, meta)
       IN  IF v.verification
           THEN [nounce_dic |-> v.nounce_dic, served |-> TRUE, message |-> ""]
           ELSE [nounce_dic |-> v.nounce_dic, served |-> FALSE,
                 message |-> "Incorrect Signature"]

InitAxon ==
  /\ Quiet
  /\ call = None

InterceptService ==
  /\ Len(handled) < MaxRequests
  /\ \E meta \in Metadata :
       LET r == intercept_service(nounce_dic, meta)
       IN  /\ nounce_dic' = r.nounce_dic
           /\ handled' = Append(handled, [meta |-> meta, served |-> r.served,
                                          message |-> r.message])
  /\ UNCHANGED << env, shared, check_block, stopEvent, newBlockEvent, queues,
                  main, solver, updates, mined_at_registration, gpu, call, ret >>

SpecAxon == InitAxon /\ [][InterceptService]_vars

(***************************************************************************)
(* Properties.                                                             *)
(***************************************************************************)
\* what an update_curr_block call with the arguments u leaves to be read
stored(u) ==
  << stored_num(u.block_number), stored_block(u.block_bytes),
     registration_diff_unpack(stored_diff(u.diff)) >>

\* what is in the three cells now, read as a worker reads it
current == << curr_block_num, curr_block, registration_diff_unpack(curr_diff) >>

\* the triple worker w holds since its last refresh
snapshot(w) ==
  << solver[w].block_number, solver[w].block_bytes, solver[w].block_difficulty >>

\* a block number read from the cell is the number n
same_number(read, n) == read >= 0 /\ BigFromNat(read) = n

\* the coordinator has raised every worker's signal for its latest update
all_signalled ==
  Len(updates) >= 1 /\ \A w \in Procs : main.set_for[w] = Len(updates)

\* C1: every POWSolution that solve_for_difficulty_fast returns is consistent
\* with one update_curr_block call (B, H, D): it carries block number B and
\* difficulty D, its seal is the seal of its nonce on H, and seal * D is at most
\* 2^256 - 1.
C1_ReturnedSolutionIsOfOneUpdate ==
  (main.pc = "done" /\ main.returned # None) =>
    LET solution == main.returned[1]
    IN  \E k \in 1..Len(updates) :
          /\ same_number(solution.block_number, updates[k].block_number)
          /\ solution.difficulty = updates[k].diff
          /\ ~to_bytes_overflows(solution.nonce, 8)
          /\ solution.seal = seal_of(to_bytes_little(solution.nonce, 8),
                                     updates[k].block_bytes)
          /\ BigLeq(BigMul(from_bytes_big(solution.seal), updates[k].diff), limit)

\* C1 (the case): a solution mined on block 2^31 is returned with a negative
\* block number.
C1_ReturnedNumberIsNegative ==
  main.pc = "done" /\ main.returned # None /\ main.returned[1].block_number < 0

\* C2: a sweep reports nonce n as its solution exactly when n is the first nonce
\* of the interval whose seal satisfies seal_meets_difficulty, and reports no
\* solution exactly when no nonce of the interval satisfies it.
C2_SweepTestsThePredicate ==
  (ret # None /\ ret[1].kind # "raise") =>
    LET count == NatFromBig(BigSub(call.nonce_end, call.nonce_start))
        nonce(i) == BigAdd(call.nonce_start, BigFromNat(i))
        meets(i) ==
          seal_meets_difficulty(seal_of(to_bytes_little(nonce(i), 8), call.block_bytes),
                                call.difficulty)
    IN  IF ret[1].kind = "solution"
        THEN \E i \in 0..(count - 1) :
               /\ ret[1].solution[1].nonce = nonce(i)
               /\ meets(i)
               /\ \A j \in 0..(i - 1) : ~meets(j)
        ELSE \A i \in 0..(count - 1) : ~meets(i)

\* C2 (the case): a sweep ends without solution although its best margin
\* product - limit is 0, that is the product equals 2^256 - 1.
C2_BoundaryNonceRejected ==
  /\ ret # None
  /\ ret[1].kind = "none"
  /\ ~ret[1].best.inf
  /\ ret[1].best.margin = <<>>

\* C3: seal_meets_difficulty(seal, difficulty) is True exactly when
\* int_big_endian(seal) * difficulty <= 2^256 - 1; it is True for every seal at
\* difficulty 1, and for the all-0xFF seal it is True iff difficulty <= 1.
C3_MeetsIffProductAtMostLimit ==
  ret # None =>
    LET product == BigMul(from_bytes_big(call.seal), call.difficulty)
    IN  /\ ret[1] = BigLess(product, BigPow2(256))
        /\ (call.difficulty = <<1>> => ret[1] = TRUE)
        /\ (call.seal = SealOnes => (ret[1] = BigLeq(call.difficulty, <<1>>)))

\* C3 (the case): the predicate was called on a product equal to 2^256 - 1 and
\* returned True.
C3_BoundaryProductAccepted ==
  /\ ret = Some(TRUE)
  /\ BigMul(from_bytes_big(call.seal), call.difficulty) = limit
  /\ call.difficulty # <<1>>

\* C4: the triple a worker reads in one refresh is the triple written by one
\* update_curr_block call, never a mix of the fields of two calls.
C4_SnapshotIsOfOneUpdate ==
  \A w \in Procs :
    solver[w].bound => \E k \in 1..Len(updates) : snapshot(w) = stored(updates[k])

\* C4 (the case): a worker refreshed after the second update_curr_block call
\* while the other worker still holds the triple of the first.
C4_RefreshedAcrossTurnover ==
  \E w, v \in Procs :
    /\ Len(updates) = 2
    /\ solver[w].pc = "clear" /\ snapshot(w) = stored(updates[2])
    /\ solver[v].bound /\ snapshot(v) = stored(updates[1])

\* C5: when the coordinator raises the signals for block B, update_curr_block
\* for B has completed: the lock is free and the cells hold B's triple; and a
\* worker that saw its signal set and then took the lock holds the triple of
\* the update that caused the signal or of a later one.
C5_UpdateCompleteBeforeSignal ==
  /\ main.pc = "set_events" =>
       /\ check_block = "free"
       /\ Len(updates) >= 1
       /\ updates[Len(updates)] = [block_number |-> main.block_number,
                                   block_bytes |-> main.block_bytes,
                                   diff |-> main.difficulty]
       /\ current = stored(updates[Len(updates)])
  /\ \A w \in Procs :
       /\ newBlockEvent[w] => main.set_for[w] >= 1
       /\ solver[w].pc = "clear" =>
            /\ solver[w].seen >= 1
            /\ \E k \in solver[w].seen..Len(updates) : snapshot(w) = stored(updates[k])

\* C5 (the case): a worker saw the signal of the second update and then read
\* the triple of the second update.
C5_SignalSeenThenNewTripleRead ==
  \E w \in Procs :
    /\ solver[w].pc = "clear"
    /\ solver[w].seen = 2
    /\ snapshot(w) = stored(updates[2])

\* C6: once the coordinator has updated the cells to block B' and raised the
\* signal of every worker, the next solution a worker pushes to the solution
\* queue carries B'.
C6_NextPushedSolutionIsOfNewBlock ==
  [][(all_signalled /\ Len(solution_queue') > Len(solution_queue)) =>
       same_number(solution_queue'[Len(solution_queue')].block_number,
                   updates[Len(updates)].block_number)]_vars

\* C6 (the case): the signals for the second block are all raised and a worker
\* is about to push a solution it mined on the first block.
C6_OldBlockSolutionAboutToBePushed ==
  \E w \in Procs :
    /\ all_signalled
    /\ Len(updates) = 2
    /\ solver[w].pc = "put_solution"
    /\ same_number(solver[w].solution[1].block_number, updates[1].block_number)

\* C7: the solution solve_for_difficulty_fast returns carries the block number
\* the coordinator published last: after an observed turnover from 100 to 101
\* it carries 101, never 100.
C7_ReturnedSolutionIsOfLastBlock ==
  (main.pc = "done" /\ main.returned # None) =>
    same_number(main.returned[1].block_number, updates[Len(updates)].block_number)

\* C7 (the case): the coordinator published block 101 and returned a solution
\* that carries block 100.
C7_ReturnedOldBlock ==
  /\ main.pc = "done"
  /\ main.returned # None
  /\ Len(updates) = 2
  /\ updates[2].block_number = BigFromNat(101)
  /\ main.returned[1].block_number = 100

\* the nonce interval a worker has just swept to its end
swept_whole(w) == solver[w].pc = "put_time" /\ solver[w].solution = None

disjoint(w, v) ==
  \/ BigLeq(solver[w].nonce_end, solver[v].nonce_start)
  \/ BigLeq(solver[v].nonce_end, solver[w].nonce_start)

\* C8: without a block change, the nonce intervals swept by two distinct
\* workers are disjoint: no nonce is evaluated by two workers.
C8_SweptIntervalsDisjoint ==
  \A w, v \in Procs :
    (w # v /\ Len(updates) = 1 /\ swept_whole(w) /\ swept_whole(v)) => disjoint(w, v)

\* C8 (the case): two workers have swept the same interval on the same block.
C8_SameIntervalSweptTwice ==
  \E w, v \in Procs :
    /\ w # v /\ Len(updates) = 1 /\ swept_whole(w) /\ swept_whole(v)
    /\ solver[w].nonce_start = solver[v].nonce_start
    /\ solver[w].nonce_end = solver[v].nonce_end
    /\ snapshot(w) = snapshot(v)

\* C9, as the code has it: create_pow returns None exactly when the loop test
\* of the coordinator found the wallet registered; solutions the workers had
\* pushed by then are left in the queue.  Otherwise it returns the solution the
\* coordinator took off the queue.
C9_NoneIffLoopSawRegistered ==
  main.pc = "done" =>
    /\ (create_pow(main.returned) = None) = main.saw_registered
    /\ main.saw_registered => registered
    /\ ~main.saw_registered => main.returned = main.solution /\ main.solution # None

\* C9 (the case): create_pow returned None although a worker had pushed a
\* solution before the coordinator saw the wallet registered.
C9_MinedSolutionDiscarded ==
  /\ main.pc = "done"
  /\ create_pow(main.returned) = None
  /\ main.mined_at_exit > 0
  /\ solution_queue # <<>>

\* C9, as the specification has it: create_pow returns None if and only if the
\* wallet became registered before any worker had pushed a solution.
C9_NoneIffRegisteredBeforeMined ==
  main.pc = "done" =>
    ((create_pow(main.returned) = None) = (mined_at_registration = Some(0)))

\* C10: when solve_for_difficulty_fast returns a solution, every worker
\* process has terminated.
C10_WorkersTerminatedAtReturn ==
  (main.pc = "done" /\ main.returned # None) =>
    \A w \in Procs : solver[w].pc \in {"stopped", "crashed"}

\* C10 (the case): the solver has returned a solution and a worker is in the
\* middle of a sweep.
C10_WorkerSweepsAfterReturn ==
  /\ main.pc = "done"
  /\ main.returned # None
  /\ \E w \in Procs : solver[w].pc = "sweep"

\* C11: the solution solve_for_difficulty_fast returns is the first one the
\* coordinator takes off the FIFO solution queue, that is the oldest one in it;
\* pushes go to the tail, and once a solution is taken no other replaces it or
\* is returned.
C11_ReturnsFirstDequeued ==
  [][/\ (Len(solution_queue') > Len(solution_queue)) =>
          SubSeq(solution_queue', 1, Len(solution_queue)) = solution_queue
     /\ (main.solution = None /\ main'.solution # None) =>
          /\ solution_queue # <<>>
          /\ main'.solution = Some(Head(solution_queue))
          /\ solution_queue' = Tail(solution_queue)
     /\ (main.solution # None) =>
          /\ main'.solution = main.solution
          /\ Len(solution_queue') >= Len(solution_queue)
     /\ (main'.pc = "done" /\ main'.returned # None) =>
          main'.returned = main'.solution
     /\ (main.pc = "done") => main'.returned = main.returned]_vars

\* C11 (the case): a solution was returned while another one, pushed later,
\* is left in the queue.
C11_LaterSolutionLeftInQueue ==
  /\ main.pc = "done"
  /\ main.returned # None
  /\ solution_queue # <<>>
  /\ solution_queue[1] # main.returned[1]

\* C12: a worker that finds the stop signal and its new-block signal both set
\* at the top of a tick goes to Stopped and nowhere else: it takes no lock,
\* reads no cell, sweeps no nonce, and stays stopped.
C12_StopTakesPrecedence ==
  [][\A w \in Procs :
       /\ (solver[w].pc = "while" /\ stopEvent /\ newBlockEvent[w]) =>
            \/ solver'[w] = solver[w]
            \/ /\ solver'[w] = [solver[w] EXCEPT !.pc = "stopped"]
               /\ UNCHANGED << shared, check_block, queues, newBlockEvent >>
       /\ (solver[w].pc = "stopped") => solver'[w] = solver[w]]_vars

\* C12 (the case): a worker has stopped with its new-block signal still set.
C12_StoppedWithNewBlockPending ==
  \E w \in Procs :
    /\ stopEvent
    /\ newBlockEvent[w]
    /\ solver[w].pc = "stopped"
    /\ main.set_for[w] > solver[w].seen

\* where a worker is between the end of a sweep and the next loop test, or
\* after its last one
AfterSweep == { "put_solution", "put_time", "while", "stopped", "crashed" }

\* C13: the stop signal, once set, stays set; a worker tests it at the top of
\* every tick, so that after the set a worker past its sweep starts no other
\* sweep (each worker starts at most the one sweep whose loop test preceded
\* the set); and every worker that has not crashed reaches Stopped.
C13_StopObservedWithinOneTick ==
  /\ [][/\ stopEvent => stopEvent'
        /\ \A w \in Procs :
             /\ (stopEvent /\ solver[w].pc \in AfterSweep) =>
                  solver'[w].pc \in AfterSweep
             /\ (stopEvent /\ solver[w].pc = "while") =>
                  solver'[w].pc \in { "while", "stopped" }]_vars
  /\ (stopEvent ~> \A w \in Procs : solver[w].pc \in { "stopped", "crashed" })

\* C13 (the case): the stop was raised because the wallet is registered and
\* all the workers, one of them after a sweep, have stopped.
C13_AllStoppedAfterRegistration ==
  /\ stopEvent
  /\ main.saw_registered
  /\ \A w \in Procs : solver[w].pc = "stopped"
  /\ \E w \in Procs : solver[w].ticks = 1

\* the coordinator holds the hash of its block number
main_has_hash ==
  main.pc \notin { "not_called", "first_block", "first_difficulty",
                   "first_hash", "hash" }

\* the GPU path holds the result of a fetch that succeeded
gpu_has_hash ==
  gpu.pc \in { "while", "solve", "found", "advance", "exit", "done" }

\* C14: a fetch of the block context is attempted at most three times on
\* either path: the GPU path makes at most max_tries calls per fetch and is
\* not fetching any more after the third failure, and the CPU path is not
\* asking for the hash any more once three calls have returned null.
C14_FetchAttemptedAtMostThreeTimes ==
  /\ gpu.tries <= max_tries
  /\ (gpu.pc \in { "first_fetch", "refetch" }) => gpu.tries < max_tries
  /\ (main.pc \in { "first_hash", "hash" }) =>
       MaxNullHash - null_left < max_tries

\* C14 (the case): on the CPU path three calls have returned null and the
\* coordinator is in its loop, about to call a fourth time.
C14_FourthAttemptOnCpuPath ==
  /\ main.pc \in { "first_hash", "hash" }
  /\ main.block_hash = None
  /\ MaxNullHash - null_left = max_tries

\* C15: a fetch that gets a valid hash after null results goes on with that
\* hash and no error.  On the GPU path a network error is raised only by a
\* third call that returned null, and after a fetch the path holds the hash of
\* its block number and its body as block bytes; on the CPU path no error is
\* raised, the coordinator holds the body of the hash of its block number and
\* publishes nothing else.
C15_ValidHashAfterNullsIsUsed ==
  /\ (gpu.raised = Some("Network error")) =>
       /\ gpu.tries = 3
       /\ gpu.block_hash = None
  /\ gpu_has_hash =>
       /\ gpu.raised = None
       /\ gpu.block_hash = Some(get_block_hash(gpu.block_number))
       /\ gpu.block_bytes = strip_0x(get_block_hash(gpu.block_number))
  /\ (gpu.pc = "cpu") => gpu.raised = None
  /\ main_has_hash =>
       /\ main.block_hash = Some(get_block_hash(main.block_number))
       /\ main.block_bytes = strip_0x(get_block_hash(main.block_number))
  /\ \A k \in 1..Len(updates) :
       updates[k].block_bytes = strip_0x(get_block_hash(updates[k].block_number))

\* C15 (the case): the first fetch of the GPU path took three calls, the
\* first two null, and the path is about to mine on the hash of the third.
C15_MiningAfterTwoNulls ==
  /\ gpu.pc = "solve"
  /\ gpu.batches = 0
  /\ gpu.tries = 3
  /\ gpu.block_bytes = strip_0x(get_block_hash(gpu.block_number))

\* C16: with cuda=True and CUDA unavailable create_pow raises "CUDA not
\* available" and does nothing else: no call of the chain client, no batch,
\* solve_for_difficulty_fast is not called and no worker is started.
C16_FailsFastWithoutCuda ==
  (gpu.cuda /\ ~gpu.available) =>
    /\ gpu.pc \in { "create_pow", "is_available", "raised" }
    /\ (gpu.pc = "raised") => gpu.raised = Some("CUDA not available")
    /\ gpu.chain_calls = 0
    /\ gpu.batches = 0
    /\ main = NotCalled
    /\ updates = <<>>
    /\ \A w \in Procs : solver[w].pc = "new"

\* C16 (the case): the call with cuda=True has ended in the exception.
C16_RaisedCudaNotAvailable ==
  /\ gpu.cuda
  /\ ~gpu.available
  /\ gpu.pc = "raised"
  /\ gpu.raised = Some("CUDA not available")

\* C17: every exit of solve_for_difficulty_fast_cuda after a solve_cuda call,
\* by return or by exception, comes after a reset_cuda call.
C17_DeviceResetBeforeEveryExit ==
  (gpu.pc \in { "done", "raised" } /\ gpu.batches > 0) => gpu.reset

\* C17 (the case): the per-batch refresh failed three times after a batch and
\* the exception left the function with the device not reset.
C17_RaisedAfterBatchWithoutReset ==
  /\ gpu.pc = "raised"
  /\ gpu.raised = Some("Network error")
  /\ gpu.batches > 0
  /\ ~gpu.reset

\* C18: after a batch without solution nonce advances by TPB *
\* update_interval and is set to 0 exactly when the advanced value is 2^63 or
\* more; the value is then the start of the next batch, and stays below 2^63.
C18_WrapsFrom2Pow63 ==
  [][/\ (gpu.pc = "advance" /\ gpu'.pc # "advance") =>
          /\ gpu'.advanced =
               BigAdd(gpu.nonce, BigMul(gpu.TPB, gpu.update_interval[1]))
          /\ gpu'.nonce = IF BigLeq(two_pow_63, gpu'.advanced) THEN <<>>
                          ELSE gpu'.advanced
     /\ (gpu.pc \in { "refetch", "while", "solve" }) => gpu'.nonce = gpu.nonce
     /\ BigLess(gpu'.nonce, two_pow_63)]_vars

\* C18 as stated: the nonce is set to 0 exactly when the advanced value
\* exceeds 2^63.
C18_WrapsOnlyAbove2Pow63 ==
  [][(gpu.pc = "advance" /\ gpu'.pc # "advance") =>
       /\ gpu'.advanced =
            BigAdd(gpu.nonce, BigMul(gpu.TPB, gpu.update_interval[1]))
       /\ gpu'.nonce = IF BigLess(two_pow_63, gpu'.advanced) THEN <<>>
                       ELSE gpu'.advanced]_vars

\* C18 (the case): the advanced value was exactly 2^63 and the next batch
\* starts at 0.
C18_WrappedAtExactly2Pow63 ==
  /\ gpu.pc = "refetch"
  /\ gpu.advanced = two_pow_63
  /\ gpu.nonce = <<>>

\* C19: POWNotStale is True exactly when the chain is at most 3 blocks past
\* the solution's block: True at a lag of 3, False at a lag of 4.
C19_NotStaleIffLagAtMostThree ==
  (ret # None /\ "current_block" \in DOMAIN call) =>
    /\ ret[1] = (call.current_block - call.block_number <= 3)
    /\ (call.current_block - call.block_number = 3) => ret[1] = TRUE
    /\ (call.current_block - call.block_number = 4) => ret[1] = FALSE

\* C19 (the case): a solution 3 blocks behind the chain was found not stale.
C19_LagOfThreeIsNotStale ==
  /\ ret = Some(TRUE)
  /\ "current_block" \in DOMAIN call
  /\ call.current_block - call.block_number = 3

\* C20: what registration_diff_unpack reads from the array written by
\* registration_diff_pack(d) is d, for d < 2^64, and the two words written
\* are d >> 32 and d & 0xFFFFFFFF, each below 2^32.
C20_UnpackOfPackIsIdentity ==
  (ret # None /\ "diff" \in DOMAIN call) =>
    /\ ret[1].diff = call.diff
    /\ ret[1].packed_diff[1] = BigShr32(call.diff)
    /\ ret[1].packed_diff[2] = BigAndLow32(call.diff)
    /\ BigLess(ret[1].packed_diff[1], BigPow2(32))
    /\ BigLess(ret[1].packed_diff[2], BigPow2(32))

\* C20 (the case): 2^64 - 1 went through the array, both words at 2^32 - 1.
C20_LargestDifficultyRoundTrips ==
  /\ ret # None
  /\ "diff" \in DOMAIN call
  /\ call.diff = BigSub(BigPow2(64), <<1>>)
  /\ ret[1].diff = call.diff
  /\ ret[1].packed_diff[1] = BigSub(BigPow2(32), <<1>>)

\* C21: a worker reads the three cells only in a step in which it has the
\* lock (nobody else holds it), and no worker step writes them; the cells
\* change only in the steps of update_curr_block, which the coordinator takes
\* while it holds the lock.
C21_WorkersReadUnderLockAndNeverWrite ==
  [][/\ \A w \in Procs :
          (solver'[w] # solver[w] /\ solver[w].pc # "new") =>
            /\ UNCHANGED shared
            /\ (snapshot(w)' # snapshot(w)) =>
                 /\ solver[w].pc = "read"
                 /\ check_block = "free"
                 /\ snapshot(w)' = current
     /\ (shared' # shared) =>
          /\ main.pc \in { "update_num", "update_block", "update_diff" }
          /\ check_block = "main"
          /\ solver' = solver]_vars

\* C21 (the case): a worker has just read the cells, which hold the triple of
\* the one update so far, and the lock is free again.
C21_WorkerHasReadUnderLock ==
  \E w \in Procs :
    /\ solver[w].pc = "clear"
    /\ check_block = "free"
    /\ Len(updates) = 1
    /\ snapshot(w) = stored(updates[1])

\* C22: when every worker has died the coordinator does not wait for ever:
\* solve_for_difficulty_fast comes to an end.
C22_CoordinatorEndsWhenAllWorkersLost ==
  (\A w \in Procs : solver[w].pc = "crashed") ~> (main.pc = "done")

\* C22 (the case): every worker has died of an exception, nothing is left in
\* the solution queue, the wallet is not registered and the coordinator polls.
C22_PollingWithAllWorkersLost ==
  /\ \A w \in Procs : solver[w].pc = "crashed"
  /\ solution_queue = <<>>
  /\ ~registered
  /\ main.pc = "poll"
  /\ main.solution = None

\* worker w is in a tick or between two ticks, not in a refresh
mining(w) ==
  solver[w].pc \in { "while", "if_new", "sweep", "put_solution", "put_time" }

\* C23: no new-block signal is lost.  When the coordinator has raised worker
\* w's signal for its latest update and w, out of its refresh, has its signal
\* clear, then w has taken that signal and holds the triple of that update:
\* it mines on the block published last.
C23_NoNewBlockSignalLost ==
  \A w \in Procs :
    ( /\ mining(w)
      /\ solver[w].bound
      /\ ~newBlockEvent[w]
      /\ Len(updates) >= 1
      /\ main.set_for[w] = Len(updates) ) =>
    snapshot(w) = stored(updates[Len(updates)])

\* C23 (the case): block 101 was published and signalled to worker w after w
\* had read the triple of block 100 and before it cleared its signal; w is
\* about to sweep on block 100 with its signal clear.
C23_SignalClearedAfterNewerUpdate ==
  \E w \in Procs :
    /\ solver[w].pc = "sweep"
    /\ ~newBlockEvent[w]
    /\ Len(updates) = 2
    /\ main.set_for[w] = 2
    /\ snapshot(w) = stored(updates[1])
    /\ stored(updates[2]) # stored(updates[1])

\* C24: solve_for_difficulty_fast, once it has started the workers, is left
\* only with the stop signal raised, by return or by exception.
C24_StopRaisedAtEveryExit ==
  (main.started /\ main.pc \in { "done", "raised" }) => stopEvent

\* C24 (the case): an exception has left the function, the stop signal is not
\* raised and a worker is sweeping.
C24_WorkerMinesAfterException ==
  /\ main.pc = "raised"
  /\ ~stopEvent
  /\ \E w \in Procs : solver[w].pc = "sweep" /\ solver[w].bound

\* the cells hold the number, the hash body and the difficulty the coordinator
\* has in hand
cells_hold_main ==
  /\ same_number(curr_block_num, main.block_number)
  /\ curr_block = stored_block(strip_0x(get_block_hash(main.block_number)))
  /\ registration_diff_unpack(curr_diff) = main.difficulty

\* C25: in an iteration of the coordinator, a block number that differs from
\* the last observed one leads to the update of the three cells with (the new
\* number, the body of its hash, the difficulty) and to the raising of every
\* worker's signal before the next poll; a number that does not differ leads
\* to the telemetry, and outside the update the coordinator leaves the cells
\* alone and raises no signal.
C25_TurnoverUpdatesAndSignals ==
  /\ [](((main.started /\ main.pc = "set_events") => cells_hold_main)
        /\ ((main.pc = "poll") =>
              /\ cells_hold_main
              /\ main.old_block_number = main.block_number
              /\ \A w \in Procs : main.set_for[w] = Len(updates)))
  /\ [][/\ (main.pc = "check_block" /\ main'.pc # "check_block") =>
             /\ main'.block_number = chain.block
             /\ main'.pc = IF chain.block # main.old_block_number
                           THEN "hash" ELSE "telemetry"
        /\ (main.pc = "telemetry" /\ main'.pc # "telemetry") => main'.pc = "while"
        /\ (shared' # shared) =>
             main.pc \in { "update_num", "update_block", "update_diff" }
        /\ \A w \in Procs :
             (~newBlockEvent[w] /\ newBlockEvent'[w]) => main.pc = "set_events"]_vars

\* C25 (the case): the coordinator is back at its poll after a turnover to
\* block 2^31, every signal raised for it, and the block-number cell does not
\* hold 2^31.
C25_PolledWithWrappedNumber ==
  /\ main.pc = "poll"
  /\ Len(updates) = 2
  /\ \A w \in Procs : main.set_for[w] = 2
  /\ main.block_number = BigPow2(31)
  /\ curr_block_num < 0

\* C26: a worker does not end its run on success.  A worker that has found a
\* solution appends it to the solution queue, goes on to report its time and
\* comes back to the loop test, from where it starts another tick unless the
\* stop signal is set; a worker stops only at the loop test, with the stop
\* signal set.
C26_WorkersStopOnlyOnStopSignal ==
  [][\A w \in Procs :
       /\ (solver[w].pc = "put_solution" /\ solver'[w] # solver[w]) =>
            /\ solution_queue' = Append(solution_queue, solver[w].solution[1])
            /\ solver'[w].pc = "put_time"
       /\ (solver[w].pc = "put_time" /\ solver'[w] # solver[w]) =>
            /\ solver'[w].pc = "while"
            /\ BigLess(solver[w].nonce_start, solver'[w].nonce_start)
       /\ (solver[w].pc = "while" /\ solver'[w] # solver[w] /\ ~stopEvent) =>
            solver'[w].pc = "if_new"
       /\ (solver'[w].pc = "stopped" /\ solver[w].pc # "stopped") =>
            /\ solver[w].pc = "while"
            /\ stopEvent]_vars

\* C26 (the case): worker 0, the only one that sweeps, has pushed a solution
\* and is about to push another one, found in its next interval.
C26_SecondSolutionOfOneWorker ==
  /\ ~solver[1].bound
  /\ solver[0].pc = "put_solution"
  /\ ~stopEvent
  /\ main.solution = None
  /\ Len(solution_queue) = 1
  /\ BigLess(solution_queue[1].nonce, solver[0].solution[1].nonce)

\* C27: no worker evaluates a nonce before its first snapshot.  A worker is
\* started only once the coordinator has finished the initial
\* update_curr_block and has then set the worker's new-block signal; the first
\* tick of a worker therefore takes the refresh branch, and a worker that
\* sweeps, or has swept, holds a block number, block bytes and a difficulty
\* read from the cells.
C27_FirstTickSnapshotsBeforeSweep ==
  /\ [](\A w \in Procs :
          /\ (solver[w].pc # "new") =>
               /\ main.set_for[w] >= 1
               /\ Len(updates) >= 1
               /\ check_block = "free" \/ Len(updates) >= 2
          /\ (solver[w].pc \in { "new", "run" }
                \/ (solver[w].pc \in { "while", "if_new" } /\ ~solver[w].bound)) =>
               newBlockEvent[w] \/ solver[w].pc = "new"
          /\ (solver[w].pc \in { "sweep", "put_solution", "put_time", "crashed" }) =>
               /\ solver[w].bound
               /\ solver[w].block_bytes # <<>>
               /\ solver[w].block_difficulty # <<>>)
  /\ [][\A w \in Procs :
          (solver[w].pc = "if_new" /\ ~solver[w].bound /\ solver'[w] # solver[w]) =>
            solver'[w].pc = "read"]_vars

\* C27 (the case): a worker is at its first sweep, with the snapshot of the
\* initial update.
C27_FirstSweepAfterFirstSnapshot ==
  \E w \in Procs :
    /\ solver[w].pc = "sweep"
    /\ solver[w].ticks = 0
    /\ solver[w].bound
    /\ Len(updates) = 1
    /\ solver[w].block_bytes = curr_block

\* C28: a worker's interval.  Every sweep starts on an interval of exactly
\* update_interval nonces; a sweep that returns, with or without a solution,
\* leaves the interval alone and is followed, after the solution (if any) and
\* the elapsed time are queued, by an advance of both ends by
\* update_interval * num_processes.
C28_IntervalAdvancesByStride ==
  /\ [](\A w \in Procs :
          (solver[w].pc \in { "while", "if_new", "read", "sweep",
                              "put_solution", "put_time" }) =>
            solver[w].nonce_end
              = BigAdd(solver[w].nonce_start, BigFromNat(update_interval)))
  /\ [][\A w \in Procs :
          /\ (solver[w].pc = "sweep" /\ solver'[w] # solver[w]) =>
               /\ solver'[w].pc \in { "put_solution", "put_time", "crashed" }
               /\ solver'[w].nonce_start = solver[w].nonce_start
               /\ solver'[w].nonce_end = solver[w].nonce_end
          /\ (solver[w].pc = "put_solution" /\ solver'[w] # solver[w]) =>
               /\ solver'[w].pc = "put_time"
               /\ solver'[w].nonce_start = solver[w].nonce_start
               /\ solver'[w].nonce_end = solver[w].nonce_end
          /\ (solver[w].pc = "put_time" /\ solver'[w] # solver[w]) =>
               /\ solver'[w].nonce_start
                    = BigAdd(solver[w].nonce_start,
                             BigFromNat(update_interval * num_processes))
               /\ solver'[w].nonce_end
                    = BigAdd(solver[w].nonce_end,
                             BigFromNat(update_interval * num_processes))]_vars

\* C28 (the case): worker 0 starts its second sweep, without a refresh in
\* between, on the interval one stride after the interval of its first sweep.
C28_SecondSweepOneStrideOn ==
  /\ solver[0].pc = "sweep"
  /\ solver[0].ticks = MaxTicks - 1
  /\ Len(updates) = 1
  /\ solver[0].nonce_start = BigFromNat(update_interval * num_processes)
  /\ solver[0].nonce_end = BigFromNat(update_interval * num_processes + update_interval)

\* C29: the search stays in [0, 2^63).  Every nonce a CPU worker evaluates (the
\* first nonce of a sweep it runs, the nonce of a solution it found, every
\* nonce of an interval it swept without a solution) and every nonce of a
\* batch handed to the GPU (nonce up to nonce + TPB * update_interval - 1) is
\* below 2^63.
C29_SearchStaysBelow2Pow63 ==
  /\ \A w \in Procs :
       /\ (solver[w].pc = "sweep" /\ solver[w].bound) =>
            BigLess(solver[w].nonce_start, two_pow_63)
       /\ (solver[w].pc = "put_solution") =>
            BigLess(solver[w].solution[1].nonce, two_pow_63)
       /\ (solver[w].pc = "put_time" /\ solver[w].solution = None) =>
            BigLeq(solver[w].nonce_end, two_pow_63)
  /\ (gpu.pc = "solve") =>
       BigLeq(BigAdd(gpu.nonce, BigMul(gpu.TPB, gpu.update_interval[1])), two_pow_63)

\* C29 (the case): a worker has drawn 2^64 - 1 as its random start and is
\* about to sweep from it.
C29_SweepFromTopOfRange ==
  \E w \in Procs :
    /\ solver[w].pc = "sweep"
    /\ solver[w].bound
    /\ solver[w].nonce_start = nonce_limit

\* C30: no CPU worker serialises a nonce above 2^64 - 1.  Every interval a
\* worker has swept to its end lies within [0, 2^64), and no worker process
\* ends with an exception.
C30_NoWorkerDiesOfOverflow ==
  \A w \in Procs :
    /\ (solver[w].pc = "put_time" /\ solver[w].solution = None) =>
         BigLeq(solver[w].nonce_end, BigPow2(64))
    /\ solver[w].pc # "crashed"

\* C30 (the case): a worker that drew 2^64 - 1 as its start, took its
\* snapshot and swept has ended with an exception.
C30_DiedSweepingFromTopOfRange ==
  \E w \in Procs :
    /\ solver[w].pc = "crashed"
    /\ solver[w].bound
    /\ BigLess(nonce_limit, solver[w].nonce_end)

\* C31: Shared Block State stores block numbers faithfully.  Once an
\* update_curr_block call for block number b has returned, the block-number
\* cell reads b; the block number of every worker snapshot, and of every
\* solution a worker has queued, is the number passed to one of the updates.
C31_BlockNumbersStoredFaithfully ==
  /\ (Len(updates) >= 1 /\ check_block = "free") =>
       same_number(curr_block_num, updates[Len(updates)].block_number)
  /\ \A w \in Procs :
       solver[w].bound =>
         \E k \in 1..Len(updates) :
           same_number(solver[w].block_number, updates[k].block_number)
  /\ \A i \in 1..Len(solution_queue) :
       \E k \in 1..Len(updates) :
         same_number(solution_queue[i].block_number, updates[k].block_number)

\* C31 (the case): update_curr_block was called with block number 2^31 and a
\* worker has queued a solution mined on the snapshot it took afterwards.
C31_QueuedSolutionOfBlock2Pow31 ==
  /\ Len(updates) >= 1
  /\ updates[Len(updates)].block_number = BigPow2(31)
  /\ \E w \in Procs :
       /\ solver[w].pc = "put_time"
       /\ solver[w].solution # None
       /\ solver[w].seen = Len(updates)
       /\ solution_queue # <<>>
       /\ solution_queue[Len(solution_queue)] = solver[w].solution[1]
       /\ solver[w].solution[1].block_number = c_int(BigPow2(31))

\* the seal of the i-th nonce of the interval worker w is about to sweep, and
\* its product with the difficulty of the worker's snapshot
swept_seal(w, i) ==
  seal_of(to_bytes_little(BigAdd(solver[w].nonce_start, BigFromNat(i)), 8),
          solver[w].block_bytes)

swept_product(w, i) == seal_product(swept_seal(w, i), solver[w].block_difficulty)

\* C32: a sweep that runs through its whole interval appends exactly one entry
\* to the best queue, the seal of a nonce of the interval with the smallest
\* product - limit and that margin, which is strictly positive, and nothing
\* else; the worker then appends one elapsed time to the time queue.
C32_CompletedSweepQueuesBestAndTime ==
  /\ [](\A i \in 1..Len(best_queue) :
          ~best_queue[i].inf /\ best_queue[i].margin # <<>>)
  /\ [][\A w \in Procs :
          /\ (solver[w].pc = "sweep" /\ solver'[w].pc = "put_time") =>
               /\ Len(best_queue') = Len(best_queue) + 1
               /\ SubSeq(best_queue', 1, Len(best_queue)) = best_queue
               /\ UNCHANGED << solution_queue, time_queue >>
               /\ LET best == best_queue'[Len(best_queue')]
                  IN  /\ ~best.inf
                      /\ \E i \in 0..(update_interval - 1) :
                           /\ best.seal = swept_seal(w, i)
                           /\ BigAdd(best.margin, limit) = swept_product(w, i)
                      /\ \A i \in 0..(update_interval - 1) :
                           BigLeq(BigAdd(best.margin, limit), swept_product(w, i))
          /\ (solver[w].pc = "put_time" /\ solver'[w] # solver[w]) =>
               /\ time_queue' = Append(time_queue, "elapsed")
               /\ UNCHANGED << solution_queue, best_queue >>]_vars

\* C32 (the case): a worker has swept an interval without solution whose best
\* product is exactly 2^256 - 1, and its entry is in the best queue.
C32_QueuedMarginIsZero ==
  \E w \in Procs :
    /\ solver[w].pc = "put_time"
    /\ solver[w].solution = None
    /\ best_queue # <<>>
    /\ best_queue[Len(best_queue)].margin = <<>>
    /\ ~best_queue[Len(best_queue)].inf
    /\ best_queue[Len(best_queue)].seal = SealThird

\* the block context the GPU path holds
gpu_context == << gpu.block_number, gpu.difficulty, gpu.block_bytes >>

\* C33: on the GPU path the returned POWSolution carries the block number and
\* the difficulty that were passed to the solve_cuda call that found its
\* nonce, and the seal that call returned: the block context changes only in
\* get_block_with_retry, which runs before the first batch and after every
\* batch without solution, never between a batch that found a nonce and the
\* return.
C33_GpuSolutionKeepsContextOfItsBatch ==
  /\ []((gpu.pc = "done" /\ gpu.returned # None) =>
          /\ gpu.returned[1].block_number = gpu.block_number
          /\ gpu.returned[1].difficulty = gpu.difficulty
          /\ gpu.returned[1].nonce = gpu.solution[1]
          /\ gpu.returned[1].seal = gpu.seal)
  /\ [][/\ (gpu.pc = "solve" /\ gpu' # gpu) =>
             /\ gpu_context' = gpu_context
             /\ gpu'.pc = IF gpu'.solution # None THEN "found" ELSE "advance"
        /\ (gpu.pc = "found" /\ gpu' # gpu) =>
             /\ gpu_context' = gpu_context
             /\ gpu'.solution = gpu.solution
             /\ gpu'.seal = gpu.seal
             /\ gpu'.pc = "done"
        /\ (gpu.pc = "advance" /\ gpu' # gpu) => gpu'.pc = "refetch"
        /\ (gpu_context' # gpu_context) =>
             /\ gpu.pc \in { "first_fetch", "refetch" }
             /\ gpu.solution = None
             /\ gpu'.block_number = chain.block
             /\ gpu'.difficulty = chain.diff
             /\ gpu'.block_bytes = strip_0x(get_block_hash(chain.block))
        /\ (gpu.returned # None) => gpu' = gpu]_vars

\* C33 (the case): the second batch, run on the context fetched after the
\* first one, found a nonce; its solution is returned while the chain is
\* already one block further.
C33_ReturnedOfSecondBatchOnOlderBlock ==
  /\ gpu.pc = "done"
  /\ gpu.returned # None
  /\ gpu.batches = 2
  /\ gpu.returned[1].block_number # chain.block

\* nonce n meets the difficulty of the call on the block hash of the call
helper_meets(n) ==
  seal_meets_difficulty(create_seal_hash(call.block_hash, BigFromNat(n)),
                        call.difficulty)

\* C34 (as amended): solve_for_difficulty(block_hash, difficulty) evaluates
\* the nonces 0, 1, 2 in this order and returns at the first one that meets
\* the difficulty, or at nonce 2 when none of the three does; whenever it
\* returns (nonce, seal) the seal is create_seal_hash(block_hash, nonce).
C34_HelperTriesThreeNonces ==
  (ret # None) =>
    /\ ret[1].nonce \in 0..2
    /\ ret[1].seal = create_seal_hash(call.block_hash, BigFromNat(ret[1].nonce))
    /\ \A n \in 0..(ret[1].nonce - 1) : ~helper_meets(n)
    /\ (ret[1].nonce < 2) => helper_meets(ret[1].nonce)

\* C34: solve_for_difficulty(block_hash, difficulty) returns after one
\* iteration when no solution is found: if nonce 0 does not meet the
\* difficulty no further nonce is evaluated, so the nonce returned is 0; and
\* whenever it returns (nonce, seal) the seal is
\* create_seal_hash(block_hash, nonce).
C34_HelperReturnsAfterOneIteration ==
  (ret # None) =>
    /\ ret[1].seal = create_seal_hash(call.block_hash, BigFromNat(ret[1].nonce))
    /\ (~helper_meets(0)) => ret[1].nonce = 0

\* C34 (the case): none of the nonces 0, 1, 2 meets the difficulty and the
\* helper returns nonce 2 with its seal.
C34_ReturnedThirdNonceUnmet ==
  /\ ret # None
  /\ ret[1].nonce = 2
  /\ ~helper_meets(0) /\ ~helper_meets(1) /\ ~helper_meets(2)

\* the request was signed with the key of its pubkey, over its own text
correctly_signed(meta) ==
  verify(meta.pubkey,
         signed_text(meta.nounce, meta.pubkey, meta.unique_receptor_uid),
         meta.message)

\* the nonce table after the interceptor has handled the requests metas,
\* starting from an empty table
RECURSIVE table_after(_)
table_after(metas) ==
  IF metas = <<>> THEN <<>>
  ELSE intercept_service(table_after(SubSeq(metas, 1, Len(metas) - 1)),
                         metas[Len(metas)]).nounce_dic

\* the correctly signed requests among the first n handled ones
signed_before(n) ==
  SelectSeq([i \in 1..n |-> handled[i].meta], correctly_signed)

\* C35: a request whose signature verification fails leaves nounce_dic
\* unchanged, and so the answer to a correctly signed request is the answer it
\* would get had the interceptor handled only the correctly signed requests
\* before it: no caller without the key can have it denied by the nonce check.
C35_FailedVerificationLeavesTable ==
  /\ [](\A i \in 1..Len(handled) :
          correctly_signed(handled[i].meta) =>
            handled[i].served
              = intercept_service(table_after(signed_before(i - 1)),
                                  handled[i].meta).served)
  /\ [][(handled' # handled
           /\ ~handled'[Len(handled')].served
           /\ handled'[Len(handled')].message = "Incorrect Signature")
          => nounce_dic' = nounce_dic]_vars

\* C35 (the case): a request for an endpoint with nounce 40 and a signature
\* made with another key was denied, and the next request of the endpoint,
\* correctly signed with nounce 25, is denied as well.
C35_SignedRequestDeniedAfterForgedOne ==
  /\ Len(handled) = 2
  /\ handled[1].meta.header = valid_metadata
  /\ handled[1].meta.message.key = OtherKey
  /\ handled[1].meta.nounce = 40
  /\ ~handled[1].served
  /\ handled[2].meta.header = valid_metadata
  /\ handled[2].meta.pubkey = handled[1].meta.pubkey
  /\ handled[2].meta.unique_receptor_uid = handled[1].meta.unique_receptor_uid
  /\ correctly_signed(handled[2].meta)
  /\ handled[2].meta.nounce = 25
  /\ ~handled[2].served

=============================================================================
